---- MODULE Spec2Model ----
(***************************************************************************)
(* go-metis: the Go wrappers around the METIS engine (metis.go), the graph *)
(* utilities and the test oracles, as a state machine.  A caller makes one *)
(* call at a time; a call either returns its result tuple or panics.  The  *)
(* engine itself is linked in through cgo and is not part of the Go        *)
(* sources; its behaviour is taken from the design specification and every *)
(* definition that does so says "engine" in its comment.                   *)
(*                                                                         *)
(* Conventions.  A Go slice is a record [nil, v]: nil tells a nil slice    *)
(* from an empty one, v holds the elements (v[i+1] is element i).  A       *)
(* float32 fraction or factor f is held as the integer 100*f.              *)
(***************************************************************************)
EXTENDS Integers, Sequences, FiniteSets, TLC

VARIABLES
    pc,     \* "idle": the caller is between calls; "done": a call has ended
    args,   \* the caller's arguments of the last call, as they were handed in
    out,    \* what that call produced: its return tuple, or a panic
    mem,    \* the caller's arguments as they are after the call
    prev,   \* an earlier call the caller has kept: its arguments and outcome
    work    \* what a call in progress holds while it runs, step by step

vars == <<pc, args, out, mem, prev, work>>

-----------------------------------------------------------------------------
(* Bounds of the model *)

\* the largest number of vertices of an input graph
MaxN == 4
\* the largest vertex or edge weight of a weighted input
MaxWgt == 3
\* the largest number of elements of an input mesh
MaxNe == 2

-----------------------------------------------------------------------------
(* Go slices and small arithmetic helpers *)

Nil == [nil |-> TRUE, v |-> <<>>]
Slice(s) == [nil |-> FALSE, v |-> s]
len(s) == Len(s.v)
\* faulty variant of make: the buffer comes up one entry short
MakeSliceShort(k) == Slice([i \in 1..(k - 1) |-> 0])

\* make([]int32, k): k zeroed elements
MakeSlice(k) == Slice([i \in 1..k |-> 0])

RECURSIVE SumSeq(_)
SumSeq(s) == IF s = <<>> THEN 0 ELSE Head(s) + SumSeq(Tail(s))

RECURSIVE SortedSeq(_)
SortedSeq(S) ==
    IF S = {} THEN <<>>
    ELSE LET m == CHOOSE x \in S : \A y \in S : x <= y
         IN <<m>> \o SortedSeq(S \ {m})

RECURSIVE Concat(_)
Concat(ss) == IF ss = <<>> THEN <<>> ELSE Head(ss) \o Concat(Tail(ss))

Max(S) == CHOOSE x \in S : \A y \in S : y <= x

\* Go's integer division and remainder by a positive b, which truncate
\* towards zero
quo(a, b) ==
    IF a >= 0 \/ a % b = 0 THEN a \div b ELSE (a \div b) + 1

rem(a, b) == a - b * quo(a, b)

-----------------------------------------------------------------------------
(* Status codes and errors *)

OK == "METIS_OK"
ErrorInput == "METIS_ERROR_INPUT"
ErrorMemory == "METIS_ERROR_MEMORY"
Error == "METIS_ERROR"
\* the length every options array must have
NoOptions == 40
\* the index of the seed in an options array
OptionSeed == 8

NoError == "nil"

getError(status) ==
    CASE status = ErrorInput -> "METIS error: erroneous inputs and/or options"
      [] status = ErrorMemory -> "METIS error: insufficient memory"
      [] status = Error -> "METIS error: general error"
      [] OTHER -> "METIS error: unknown error code"

-----------------------------------------------------------------------------
(* The callers' inputs.  Graphs are symmetric CSR pairs built the way the   *)
(* tests build them: neighbour lists sorted by vertex id, laid end to end.  *)

\* the edges an input graph may have: the ring 0-1-...-(n-1)-0 and one chord
CandidateEdges(n) ==
    {<<i, i + 1>> : i \in 0..(n - 2)}
        \cup (IF n >= 3 THEN {<<0, n - 1>>} ELSE {})
        \cup (IF n >= 4 THEN {<<1, 3>>} ELSE {})

adjList(E, u) == {v \in 0..MaxN : <<u, v>> \in E \/ <<v, u>> \in E}

\* xadj[i+1] = xadj[i] + len(adjList[i]); adjncy = the sorted lists appended
createGraph(n, E) ==
    [xadj |-> Slice([i \in 1..(n + 1) |->
                 SumSeq([k \in 1..(i - 1) |-> Cardinality(adjList(E, k - 1))])]),
     adjncy |-> Slice(Concat([k \in 1..n |-> SortedSeq(adjList(E, k - 1))]))]

\* every graph of the family, the graph with no vertex (xadj = [0]) among
\* them, and the empty xadj and the nil arrays
GraphInputs ==
    UNION {{createGraph(n, E) : E \in SUBSET CandidateEdges(n)} : n \in 0..MaxN}
        \cup {[xadj |-> Slice(<<>>), adjncy |-> Slice(<<>>)],
              [xadj |-> Nil, adjncy |-> Nil]}

\* number of parts asked for: 0 is the invalid request
NPartsInputs == 0..(MaxN \div 2 + 1)

\* options: none, a freshly defaulted array, an array of the wrong length
DefaultOptions == Slice([i \in 1..NoOptions |-> -1])
OptionInputs == {Nil, DefaultOptions, Slice([i \in 1..10 |-> 0])}

\* an options array with a seed, set the way the example program sets it:
\* the defaults, then opts[OptionSeed] = seed
SeededOptions ==
    Slice([i \in 1..NoOptions |-> IF i = OptionSeed + 1 THEN 1 ELSE -1])

\* what a caller who repeats a call hands in: the densest graph of each
\* size (the single vertex has no edge), one or two parts, and options with
\* and without a seed
RepeatGraphs == {createGraph(n, CandidateEdges(n)) : n \in 1..MaxN}

RepeatNPartsInputs == 1..2

RepeatOptionInputs == OptionInputs \cup {SeededOptions}

\* arrays handed to SetDefaultOptions: those above, a fresh array of
\* NoOptions zeros, one with a seed set, one entry too many, no entry
SetDefaultOptionInputs ==
    RepeatOptionInputs
        \cup {Slice([i \in 1..NoOptions |-> 0]),
              Slice([i \in 1..(NoOptions + 1) |-> 0]), Slice(<<>>)}

\* vertex weights for a graph of n vertices: none, 1..n, one heavy vertex,
\* and an array that is one entry too long
VwgtInputs(n) ==
    {Nil, Slice([i \in 1..n |-> i]),
     Slice([i \in 1..n |-> IF i = 1 THEN MaxWgt ELSE 1]),
     Slice([i \in 1..(n + 1) |-> 1])}

\* the vertex that owns CSR position j (0-based) of the graph
Owner(xadj, j) == CHOOSE i \in 0..(len(xadj) - 2) :
                      xadj.v[i + 1] <= j /\ j < xadj.v[i + 2]

\* edge weights: none, a symmetric weight per edge, w(u,v) = w(v,u), and an
\* array of the wrong length (adjncy lists every edge twice)
AdjwgtInputs(g) ==
    {Nil,
     Slice([j \in 1..len(g.adjncy) |->
                1 + ((Owner(g.xadj, j - 1) + g.adjncy.v[j]) % MaxWgt)]),
     Slice(<<1>>)}

\* target fractions for k parts, in hundredths: none, or a skewed split
TpwgtsInputs(k) ==
    {Nil} \cup (CASE k = 1 -> {Slice(<<100>>)}
                  [] k = 2 -> {Slice(<<30, 70>>)}
                  [] k = 3 -> {Slice(<<10, 30, 60>>)}
                  [] OTHER -> {})

\* allowed imbalance, in hundredths: none, or a loose one (1.50)
UbvecInputs == {Nil, Slice(<<150>>)}

\* a mesh laid out as the tests lay theirs out, with triangles: element i
\* starts at eptr[i] = 3*i and its j-th node is eind[3*i + j] = (i + j) % nn
createMesh(ne, nn) ==
    [ne |-> ne, nn |-> nn,
     eptr |-> Slice([i \in 1..(ne + 1) |-> 3 * (i - 1)]),
     eind |-> Slice([k \in 1..(3 * ne) |->
                        (((k - 1) \div 3) + ((k - 1) % 3)) % nn])]

\* the meshes of that family, one whose nn understates its node ids, the
\* mesh with no element, and the empty and the nil arrays
MeshInputs ==
    {createMesh(ne, nn) : ne \in 1..MaxNe, nn \in 3..MaxN}
        \cup {[createMesh(1, 3) EXCEPT !.nn = 2],
              [ne |-> 0, nn |-> 0, eptr |-> Slice(<<0>>), eind |-> Slice(<<>>)],
              [ne |-> 0, nn |-> 0, eptr |-> Slice(<<>>), eind |-> Slice(<<>>)],
              [ne |-> 0, nn |-> 0, eptr |-> Nil, eind |-> Nil]}

\* shared nodes that make two elements neighbours: 1..3, as the tests try
NCommonInputs == 1..3

\* number of parts asked for of a mesh
MeshNPartsInputs == 0..2

\* weights handed to a mesh partitioning: none, or an empty array
MeshVwgtInputs == {Nil, Slice(<<>>)}

\* the largest int32
MaxInt32 == 2147483647

\* an edge weight so heavy that twice it is no int32
HeavyWeight == MaxInt32 \div 2 + 1

\* edge weights for CalculateEdgeCut: none, a symmetric weight per edge, and
\* symmetric weights with the edge 0-1 a heavy one
CutAdjwgtInputs(g) ==
    {Nil,
     Slice([j \in 1..len(g.adjncy) |->
                1 + ((Owner(g.xadj, j - 1) + g.adjncy.v[j]) % MaxWgt)]),
     Slice([j \in 1..len(g.adjncy) |->
                IF {Owner(g.xadj, j - 1), g.adjncy.v[j]} = {0, 1}
                THEN HeavyWeight ELSE 1])}

\* the part vectors of n vertices over the part ids 0..k-1
PartInputs(n, k) == {Slice(f) : f \in [1..n -> 0..(k - 1)]}

\* number of parts handed to CalculatePartitionBalance: 0 is none at all
BalanceNPartsInputs == 0..2

\* graphs whose xadj is malformed: a first offset other than 0, a decreasing
\* offset, a last offset other than len(adjncy)
MalformedGraphs ==
    {[xadj |-> Slice(<<1, 1>>), adjncy |-> Slice(<<0>>)],
     [xadj |-> Slice(<<0, 2, 1>>), adjncy |-> Slice(<<1>>)],
     [xadj |-> Slice(<<0, 1, 2>>), adjncy |-> Slice(<<1>>)]}

\* the well-formed graphs among the inputs
FileGraphs == {g : g \in {h \in GraphInputs : len(h.xadj) >= 1}}

\* weights written to a graph file: vertex i weighs 9 + i (so that weights
\* of one and of two digits occur), CSR entry j weighs 1 + (u + v) % MaxWgt
FileVwgt(g) == Slice([i \in 1..(len(g.xadj) - 1) |-> 8 + i])

FileAdjwgt(g) ==
    Slice([j \in 1..len(g.adjncy) |->
              1 + ((Owner(g.xadj, j - 1) + g.adjncy.v[j]) % MaxWgt)])

\* the decimal digits, and the decimal numeral of a natural number
Digits == <<"0", "1", "2", "3", "4", "5", "6", "7", "8", "9">>

RECURSIVE Itoa(_)
Itoa(n) ==
    IF n < 10 THEN <<Digits[n + 1]>>
    ELSE Itoa(n \div 10) \o <<Digits[(n % 10) + 1]>>

\* tokens laid on one line, a blank between two, a newline at the end
RECURSIVE JoinLine(_)
JoinLine(tokens) ==
    IF tokens = <<>> THEN <<"\n">>
    ELSE IF Len(tokens) = 1 THEN Head(tokens) \o <<"\n">>
    ELSE Head(tokens) \o <<" ">> \o JoinLine(Tail(tokens))

\* the persisted graph format: the header <nvtxs> <nedges> [fmt], then one
\* line per vertex: its weight if any, then its neighbours, numbered from 1,
\* each followed by the edge's weight if any
formatGraph(g, vwgt, adjwgt, fmt) ==
    LET n == len(g.xadj) - 1
        entry(j) == <<Itoa(g.adjncy.v[j] + 1)>>
                        \o (IF adjwgt.nil THEN <<>> ELSE <<Itoa(adjwgt.v[j])>>)
        line(i) == (IF vwgt.nil THEN <<>> ELSE <<Itoa(vwgt.v[i])>>)
                      \o Concat([k \in 1..(g.xadj.v[i + 1] - g.xadj.v[i]) |->
                                    entry(g.xadj.v[i] + k)])
    IN JoinLine(<<Itoa(n), Itoa(len(g.adjncy) \div 2)>> \o fmt)
          \o Concat([i \in 1..n |-> JoinLine(line(i))])

\* the fmt field for the weights written: tens digit 1 for vertex weights,
\* units digit 1 for edge weights; it may be left out when there are none
FmtInputs(vwgt, adjwgt) ==
    {<<<<(IF vwgt.nil THEN "0" ELSE "1"), (IF adjwgt.nil THEN "0" ELSE "1")>>>>}
        \cup (IF vwgt.nil /\ adjwgt.nil THEN {<<>>} ELSE {})

\* the graph files: every well-formed graph written with and without
\* weights, each with the arrays it was written from
WrittenFiles ==
    UNION {UNION {{[xadj |-> g.xadj, adjncy |-> g.adjncy,
                    vwgt |-> vwgt, adjwgt |-> adjwgt, written |-> TRUE,
                    text |-> formatGraph(g, vwgt, adjwgt, fmt)] :
                      fmt \in FmtInputs(vwgt, adjwgt)} :
                  vwgt \in {Nil, FileVwgt(g)}, adjwgt \in {Nil, FileAdjwgt(g)}} :
           g \in FileGraphs}

\* texts that are no graph file, or a strange one: the empty text, a header
\* of one field, a vertex count that is no number, a missing vertex line,
\* tokens that are no numbers, a fmt that is no number, negative vertex
\* counts, a vertex line without the weight the header flags, a neighbour
\* without the edge weight the header flags
OtherTexts ==
    {<<>>,
     <<"3", "\n">>,
     <<"x", " ", "0", "\n">>,
     <<"2", " ", "1", "\n", "2", "\n">>,
     <<"2", " ", "1", "\n", "x", "\n", "1", "\n">>,
     <<"2", " ", "1", " ", "1", "0", "\n", "x", " ", "2", "\n", "1", " ", "1", "\n">>,
     <<"2", " ", "1", " ", "1", "\n", "2", " ", "x", "\n", "1", " ", "1", "\n">>,
     <<"2", " ", "1", " ", "x", "\n", "2", "\n", "1", "\n">>,
     <<"-", "1", " ", "0", "\n">>,
     <<"-", "2", " ", "0", "\n">>,
     <<"2", " ", "0", " ", "1", "0", "\n", "5", "\n", "\n">>,
     <<"2", " ", "1", " ", "0", "1", "\n", "2", "\n", "1", " ", "7", "\n">>}

TextInputs ==
    WrittenFiles
        \cup {[xadj |-> Nil, adjncy |-> Nil, vwgt |-> Nil, adjwgt |-> Nil,
               written |-> FALSE, text |-> t] : t \in OtherTexts}

\* the vertex handed to an accessor: any id, and one below and one above
VertexInputs == (-1)..MaxN

-----------------------------------------------------------------------------
(* The engine (METIS), from the design specification.  It sees what the     *)
(* wrapper hands it: the vertex count and the arrays behind the pointers.   *)

\* engine: vertex i's weight, 1 when no vwgt is given
VertexWeight(vwgt, i) == IF vwgt.nil THEN 1 ELSE vwgt.v[i + 1]

\* engine: CSR entry j's weight, 1 when no adjwgt is given
EdgeWeight(adjwgt, j) == IF adjwgt.nil THEN 1 ELSE adjwgt.v[j + 1]

\* engine: total weight of the vertices of part p
PartWeight(nvtxs, vwgt, part, p) ==
    SumSeq([i \in 1..nvtxs |->
               IF part[i] = p THEN VertexWeight(vwgt, i - 1) ELSE 0])

\* engine: the edge cut, the weight of the edges whose ends lie in different
\* parts; the CSR lists every edge from both ends
EdgeCut(nvtxs, xadj, adjncy, adjwgt, part) ==
    SumSeq([j \in 1..xadj.v[nvtxs + 1] |->
               IF part[Owner(xadj, j - 1) + 1] # part[adjncy.v[j] + 1]
               THEN EdgeWeight(adjwgt, j - 1) ELSE 0]) \div 2

\* engine: the target fraction of part p as <<numerator, denominator>>:
\* uniform unless tpwgts is given
TargetFraction(tpwgts, nparts, p) ==
    IF tpwgts.nil THEN <<1, nparts>> ELSE <<tpwgts.v[p + 1], 100>>

\* engine: the configured imbalance tolerance as the factor 1+tolerance, in
\* hundredths: ubvec when given, else 1.10, and 1.20 from 16 parts on
ImbalanceFactor(ubvec, nparts) ==
    IF ~ubvec.nil THEN ubvec.v[1]
    ELSE IF nparts >= 16 THEN 120 ELSE 110

\* engine: the balance constraint: no part exceeds
\* target_fraction * (1 + tolerance) * total_weight
Balanced(nvtxs, vwgt, nparts, tpwgts, ubvec, part) ==
    LET total == SumSeq([i \in 1..nvtxs |-> VertexWeight(vwgt, i - 1)])
    IN \A p \in 0..(nparts - 1) :
         LET f == TargetFraction(tpwgts, nparts, p)
         IN 100 * f[2] * PartWeight(nvtxs, vwgt, part, p)
                <= ImbalanceFactor(ubvec, nparts) * f[1] * total

\* engine: the ratio x[1]/x[2] is no larger than y[1]/y[2]
RatioLE(x, y) == x[1] * y[2] <= y[1] * x[2]

\* engine: how far a partition is from its targets: the largest ratio, over
\* the parts, of part weight to target fraction, as <<numerator, denominator>>
Imbalance(nvtxs, vwgt, nparts, tpwgts, part) ==
    LET ratio == {<<PartWeight(nvtxs, vwgt, part, p)
                        * TargetFraction(tpwgts, nparts, p)[2],
                    TargetFraction(tpwgts, nparts, p)[1]>> :
                      p \in 0..(nparts - 1)}
    IN CHOOSE r \in ratio : \A x \in ratio : RatioLE(x, r)

\* engine: every part is used when there are at least 2*nparts vertices
AllPartsUsed(nvtxs, nparts, part) ==
    nvtxs >= 2 * nparts =>
        \A p \in 0..(nparts - 1) : \E i \in 1..nvtxs : part[i] = p

\* engine: the partitions a successful call may return: every vertex in a
\* part of [0, nparts), all parts used on a large enough graph, and the
\* balance constraint met, or, where no assignment meets it, the closest
\* feasible balance
Partitions(nvtxs, vwgt, nparts, tpwgts, ubvec) ==
    LET cand == {part \in [1..nvtxs -> 0..(nparts - 1)] :
                    AllPartsUsed(nvtxs, nparts, part)}
        good == {part \in cand :
                    Balanced(nvtxs, vwgt, nparts, tpwgts, ubvec, part)}
        far == [part \in cand |->
                    Imbalance(nvtxs, vwgt, nparts, tpwgts, part)]
    IN IF good # {} THEN good
       ELSE {part \in cand : \A b \in cand : RatioLE(far[part], far[b])}

\* the inputs of Partitions that the callers draw
PartitionKeys ==
    UNION {{<<n, vwgt, nparts, tpwgts, ubvec>> :
               vwgt \in VwgtInputs(n), tpwgts \in TpwgtsInputs(nparts),
               ubvec \in UbvecInputs} :
                  n \in 1..MaxN, nparts \in NPartsInputs \ {0}}

\* engine: Partitions, worked out once for these inputs, as pairs
\* <<inputs, partitions>>
PartitionTable ==
    {<<k, {part : part \in Partitions(k[1], k[2], k[3], k[4], k[5])}>> :
        k \in PartitionKeys}

PartitionsOf(nvtxs, vwgt, nparts, tpwgts, ubvec) ==
    LET k == <<nvtxs, vwgt, nparts, tpwgts, ubvec>>
    IN IF \E e \in PartitionTable : e[1] = k
       THEN (CHOOSE e \in PartitionTable : e[1] = k)[2]
       ELSE Partitions(nvtxs, vwgt, nparts, tpwgts, ubvec)

\* engine: a graph partitioning call.  InvalidInput for nparts < 1;
\* ResourceExhausted may strike any call; otherwise a partition and its cut
PartGraph(nvtxs, xadj, adjncy, vwgt, adjwgt, nparts, tpwgts, ubvec) ==
    IF nparts < 1 THEN {[status |-> ErrorInput, objval |-> 0, part |-> <<>>]}
    ELSE {[status |-> ErrorMemory, objval |-> 0, part |-> <<>>]} \cup
         {[status |-> OK,
           objval |-> EdgeCut(nvtxs, xadj, adjncy, adjwgt, part),
           part |-> part] :
              part \in PartitionsOf(nvtxs, vwgt, nparts, tpwgts, ubvec)}

\* engine: multilevel recursive bisection
METIS_PartGraphRecursive(nvtxs, ncon, xadj, adjncy, vwgt, vsize, adjwgt, nparts, tpwgts, ubvec, opts) ==
    PartGraph(nvtxs, xadj, adjncy, vwgt, adjwgt, nparts, tpwgts, ubvec)

\* engine: multilevel k-way partitioning
METIS_PartGraphKway(nvtxs, ncon, xadj, adjncy, vwgt, vsize, adjwgt, nparts, tpwgts, ubvec, opts) ==
    PartGraph(nvtxs, xadj, adjncy, vwgt, adjwgt, nparts, tpwgts, ubvec)

\* engine: the multilevel scheme, level by level.  A level is a graph on
\* the vertices 1..n: vwgt[u] is the weight of u and w[u][v] the weight of
\* the edge between u and v, 0 where there is none.

\* engine: the finest level (level 0), the caller's graph
FinestLevel(nvtxs, xadj, adjncy, vwgt, adjwgt) ==
    [n |-> nvtxs,
     vwgt |-> [u \in 1..nvtxs |-> VertexWeight(vwgt, u - 1)],
     w |-> [u \in 1..nvtxs |-> [v \in 1..nvtxs |->
              SumSeq([k \in 1..(xadj.v[u + 1] - xadj.v[u]) |->
                  IF adjncy.v[xadj.v[u] + k] = v - 1
                  THEN EdgeWeight(adjwgt, xadj.v[u] + k - 1) ELSE 0])]]]

\* engine: matching.  m[u] is the vertex u is paired with, u itself when u
\* stays single.  Every unmatched vertex with an unmatched neighbour is
\* paired with one, so no edge is left with both ends single; the visiting
\* order (random, or by heaviest edge) picks one of these matchings
Matchings(g) ==
    {m \in [1..g.n -> 1..g.n] :
        /\ \A u \in 1..g.n : m[m[u]] = u /\ (m[u] # u => g.w[u][m[u]] > 0)
        /\ \A u, v \in 1..g.n :
              (u # v /\ g.w[u][v] > 0) => (m[u] # u \/ m[v] # v)}

\* engine: the coarse vertex of each fine vertex: pairs and singles are
\* numbered 1, 2, ... in the order of their smallest member
CoarseMap(g, m) ==
    [u \in 1..g.n |->
        Cardinality({v \in 1..(IF m[u] < u THEN m[u] ELSE u) : v <= m[v]})]

\* engine, faulty variant: parallel edges are collapsed into one without
\* their weights being summed
ContractUnsummed(g, cmap) ==
    LET cn == Cardinality({cmap[u] : u \in 1..g.n})
    IN [n |-> cn,
        vwgt |-> [c \in 1..cn |->
                    SumSeq([u \in 1..g.n |->
                               IF cmap[u] = c THEN g.vwgt[u] ELSE 0])],
        w |-> [c \in 1..cn |-> [d \in 1..cn |->
                 IF c = d THEN 0
                 ELSE Max({0} \cup {g.w[u][v] :
                                       u \in {x \in 1..g.n : cmap[x] = c},
                                       v \in {x \in 1..g.n : cmap[x] = d}})]]]

\* engine: contraction.  Each pair or single becomes one coarse vertex with
\* summed weight; the coarse edge between two groups carries the summed
\* weight of the fine edges that cross between them
Contract(g, cmap) ==
    LET cn == Cardinality({cmap[u] : u \in 1..g.n})
    IN [n |-> cn,
        vwgt |-> [c \in 1..cn |->
                    SumSeq([u \in 1..g.n |->
                               IF cmap[u] = c THEN g.vwgt[u] ELSE 0])],
        w |-> [c \in 1..cn |-> [d \in 1..cn |->
                 IF c = d THEN 0
                 ELSE SumSeq([u \in 1..g.n |->
                         SumSeq([v \in 1..g.n |->
                             IF cmap[u] = c /\ cmap[v] = d
                             THEN g.w[u][v] ELSE 0])])]]]

\* engine: the weight of a set of vertices of a level
RegionWeight(g, R) ==
    SumSeq([u \in 1..g.n |-> IF u \in R THEN g.vwgt[u] ELSE 0])

\* engine: the edge cut of a partition of a level
LevelCut(g, part) ==
    SumSeq([u \in 1..g.n |->
        SumSeq([v \in 1..g.n |->
            IF u < v /\ part[u] # part[v] THEN g.w[u][v] ELSE 0])])

\* engine: greedy graph growing: the regions that grow from R by adding an
\* adjacent vertex at a time (any vertex where none is adjacent) until the
\* region holds half the weight or all vertices but one
RECURSIVE Grow(_, _)
Grow(g, R) ==
    IF 2 * RegionWeight(g, R) >= RegionWeight(g, 1..g.n)
          \/ Cardinality(R) >= g.n - 1
    THEN {R}
    ELSE LET near == {v \in (1..g.n) \ R : \E u \in R : g.w[u][v] > 0}
             next == IF near # {} THEN near ELSE (1..g.n) \ R
         IN UNION {Grow(g, R \cup {v}) : v \in next}

\* engine, faulty variant: the random scheme, any assignment to the parts
RandomPartitions(g, nparts) == [1..g.n -> 0..(nparts - 1)]

\* engine: initial partitioning of the coarsest level into one or two
\* parts: the region grown from a seed vertex is part 0, the rest part 1
InitialPartitions(g, nparts) ==
    IF nparts = 1 THEN {[u \in 1..g.n |-> 0]}
    ELSE {[u \in 1..g.n |-> IF u \in R THEN 0 ELSE 1] :
             R \in UNION {Grow(g, {s}) : s \in 1..g.n}}

\* engine: projection: each fine vertex takes the part of its coarse vertex
Project(cmap, cpart) == [u \in DOMAIN cmap |-> cpart[cmap[u]]]

\* engine: the heaviest part of a partition of a level
HeaviestPart(g, nparts, part) ==
    Max({RegionWeight(g, {u \in 1..g.n : part[u] = p}) :
            p \in 0..(nparts - 1)})

\* engine: refinement: the partitions one move of a boundary vertex to a
\* neighbouring part leads to.  A move is made only if its gain is positive,
\* or zero while the heaviest part gets lighter, and if the part moved to
\* stays within the balance constraint
RefineMoves(g, nparts, part) ==
    LET moved(v, q) == [part EXCEPT ![v] = q]
        gain(v, q) == LevelCut(g, part) - LevelCut(g, moved(v, q))
    IN {moved(mv[1], mv[2]) : mv \in
          {mv \in (1..g.n) \X (0..(nparts - 1)) :
              /\ \E u \in 1..g.n :
                    g.w[u][mv[1]] > 0 /\ part[u] = mv[2] /\ part[mv[1]] # mv[2]
              /\ \/ gain(mv[1], mv[2]) > 0
                 \/ /\ gain(mv[1], mv[2]) = 0
                    /\ HeaviestPart(g, nparts, moved(mv[1], mv[2]))
                          < HeaviestPart(g, nparts, part)
              /\ 100 * nparts
                    * RegionWeight(g, {u \in 1..g.n :
                                         moved(mv[1], mv[2])[u] = mv[2]})
                    <= ImbalanceFactor(Nil, nparts)
                          * RegionWeight(g, 1..g.n)}}

\* engine: a partitioning call in progress: the levels built so far, the
\* finest first; cmaps[l], the coarse vertex at level l + 1 of each vertex of
\* level l; lev, the level the partition part is of (0 while coarsening);
\* cpart, the partition of level lev + 1 that part has just been projected
\* from, <<>> otherwise
partitioning(g, nparts) ==
    [step |-> "coarsen", nparts |-> nparts, levels |-> <<g>>, cmaps |-> <<>>,
     lev |-> 0, part |-> <<>>, cpart |-> <<>>]

\* engine: the nodes of element e
ElemNodes(eptr, eind, e) ==
    {eind.v[k] : k \in (eptr.v[e + 1] + 1)..eptr.v[e + 2]}

\* engine: the mesh invariant: every element has a node, and node ids lie
\* in [0, nn)
ValidMesh(ne, nn, eptr, eind) ==
    /\ len(eptr) = ne + 1
    /\ \A e \in 0..(ne - 1) : eptr.v[e + 1] < eptr.v[e + 2]
    /\ eptr.v[ne + 1] = len(eind)
    /\ \A k \in 1..len(eind) : eind.v[k] \in 0..(nn - 1)

\* engine: elements are adjacent iff they share at least ncommon nodes
DualAdj(ne, eptr, eind, ncommon, e) ==
    {f \in 0..(ne - 1) \ {e} :
        Cardinality(ElemNodes(eptr, eind, e) \cap ElemNodes(eptr, eind, f))
            >= ncommon}

\* engine: nodes are adjacent iff they co-occur in some element
NodalAdj(ne, nn, eptr, eind, u) ==
    {v \in 0..(nn - 1) \ {u} :
        \E e \in 0..(ne - 1) : {u, v} \subseteq ElemNodes(eptr, eind, e)}

\* engine: the CSR arrays of the graph on 0..n-1 whose neighbour sets are
\* nbr[0..n-1]
ToCSR(n, nbr) ==
    [xadj |-> [i \in 1..(n + 1) |->
                 SumSeq([k \in 1..(i - 1) |-> Cardinality(nbr[k - 1])])],
     adjncy |-> Concat([k \in 1..n |-> SortedSeq(nbr[k - 1])])]

\* engine: the dual graph of a mesh
DualGraph(ne, eptr, eind, ncommon) ==
    ToCSR(ne, [e \in 0..(ne - 1) |-> DualAdj(ne, eptr, eind, ncommon, e)])

\* engine: the nodal graph of a mesh
NodalGraph(ne, nn, eptr, eind) ==
    ToCSR(nn, [u \in 0..(nn - 1) |-> NodalAdj(ne, nn, eptr, eind, u)])

\* engine: mesh to dual graph; fails on an inconsistent mesh
METIS_MeshToDual(ne, nn, eptr, eind, ncommon, numflag) ==
    IF ~ValidMesh(ne, nn, eptr, eind)
    THEN {[status |-> ErrorInput, xadj |-> <<>>, adjncy |-> <<>>]}
    ELSE LET g == DualGraph(ne, eptr, eind, ncommon)
         IN {[status |-> OK, xadj |-> g.xadj, adjncy |-> g.adjncy]}

\* engine: mesh to nodal graph; fails on an inconsistent mesh
METIS_MeshToNodal(ne, nn, eptr, eind, numflag) ==
    IF ~ValidMesh(ne, nn, eptr, eind)
    THEN {[status |-> ErrorInput, xadj |-> <<>>, adjncy |-> <<>>]}
    ELSE LET g == NodalGraph(ne, nn, eptr, eind)
         IN {[status |-> OK, xadj |-> g.xadj, adjncy |-> g.adjncy]}

\* engine: partition a mesh through its nodal graph: a partition of the
\* nodes, a part in range for every element, and the cut of the nodal graph
METIS_PartMeshNodal(ne, nn, eptr, eind, vwgt, vsize, nparts, tpwgts, opts) ==
    IF nparts < 1 \/ ~ValidMesh(ne, nn, eptr, eind)
    THEN {[status |-> ErrorInput, objval |-> 0, epart |-> <<>>, npart |-> <<>>]}
    ELSE LET g == NodalGraph(ne, nn, eptr, eind)
         IN {[status |-> ErrorMemory, objval |-> 0,
              epart |-> <<>>, npart |-> <<>>]} \cup
            {[status |-> OK,
              objval |-> EdgeCut(nn, Slice(g.xadj), Slice(g.adjncy), Nil, npart),
              epart |-> epart, npart |-> npart] :
                 npart \in PartitionsOf(nn, vwgt, nparts, tpwgts, Nil),
                 epart \in [1..ne -> 0..(nparts - 1)]}

\* engine: partition a mesh through its dual graph: a partition of the
\* elements, a part in range for every node, and the cut of the dual graph
METIS_PartMeshDual(ne, nn, eptr, eind, vwgt, vsize, ncommon, nparts, tpwgts, opts) ==
    IF nparts < 1 \/ ncommon < 1 \/ ~ValidMesh(ne, nn, eptr, eind)
    THEN {[status |-> ErrorInput, objval |-> 0, epart |-> <<>>, npart |-> <<>>]}
    ELSE LET g == DualGraph(ne, eptr, eind, ncommon)
         IN {[status |-> ErrorMemory, objval |-> 0,
              epart |-> <<>>, npart |-> <<>>]} \cup
            {[status |-> OK,
              objval |-> EdgeCut(ne, Slice(g.xadj), Slice(g.adjncy), Nil, epart),
              epart |-> epart, npart |-> npart] :
                 epart \in PartitionsOf(ne, vwgt, nparts, tpwgts, Nil),
                 npart \in [1..nn -> 0..(nparts - 1)]}

\* engine: the orderings of n vertices
Orderings(n) ==
    {p \in [1..n -> 0..(n - 1)] : \A i, j \in 1..n : p[i] = p[j] => i = j}

\* engine: the inverse of an ordering
Inverse(n, p) == [i \in 1..n |-> (CHOOSE j \in 1..n : p[j] = i - 1) - 1]

\* engine: nested dissection: an ordering perm and its inverse iperm
METIS_NodeND(nvtxs, xadj, adjncy, vwgt, opts) ==
    {[status |-> ErrorMemory, perm |-> <<>>, iperm |-> <<>>]} \cup
    {[status |-> OK, perm |-> p, iperm |-> Inverse(nvtxs, p)] :
        p \in Orderings(nvtxs)}

\* faulty variant of the engine: any 3-way assignment
SeparatorsAny(nvtxs, xadj, adjncy) == [1..nvtxs -> 0..2]

\* engine: the 3-way assignments (part 0, part 1, separator 2) in which no
\* edge joins part 0 and part 1
Separators(nvtxs, xadj, adjncy) ==
    {part \in [1..nvtxs -> 0..2] :
        \A j \in 1..xadj.v[nvtxs + 1] :
            {part[Owner(xadj, j - 1) + 1], part[adjncy.v[j] + 1]} # {0, 1}}

\* engine: a vertex separator: its size and the 3-way assignment
METIS_ComputeVertexSeparator(nvtxs, xadj, adjncy, vwgt, opts) ==
    {[status |-> ErrorMemory, sepsize |-> 0, part |-> <<>>]} \cup
    {[status |-> OK,
      sepsize |-> Cardinality({i \in 1..nvtxs : part[i] = 2}),
      part |-> part] : part \in Separators(nvtxs, xadj, adjncy)}

-----------------------------------------------------------------------------
(* The wrappers of metis.go.  Each yields the set of outcomes the call may  *)
(* have: a return tuple per answer of the engine, or a panic.               *)

\* a *Graph: nil, or a reference to the Graph value g
NilGraph ==
    [null |-> TRUE, Xadj |-> Nil, Adjncy |-> Nil, Vwgt |-> Nil, Adjwgt |-> Nil]

Ref(g) ==
    [null |-> FALSE, Xadj |-> g.Xadj, Adjncy |-> g.Adjncy,
     Vwgt |-> g.Vwgt, Adjwgt |-> g.Adjwgt]

\* no call has produced anything yet; the fields a call does not return
\* keep these values
NoOut ==
    [outcome |-> "none", ret |-> "not called", err |-> NoError,
     part |-> Nil, objval |-> 0, epart |-> Nil, npart |-> Nil,
     xadj |-> Nil, adjncy |-> Nil, perm |-> Nil, iperm |-> Nil,
     sepsize |-> 0, graph |-> NilGraph, value |-> 0, list |-> Nil,
     min |-> 0, max |-> 0, avg |-> [num |-> 0, den |-> 1]]

\* a run-time panic: the call never returns (make with a negative length,
\* or &s[0] on an empty or nil slice)
Panic == [NoOut EXCEPT !.outcome = "panic"]

\* an error return ahead of the engine call: nil, 0, errors.New(msg)
InputError(msg) == [NoOut EXCEPT !.outcome = "returned", !.err = msg]

\* &s[0] panics unless s has an element
Indexable(s) == len(s) > 0

\* a nil-able array argument is dereferenced only when non-nil
IndexableOrNil(s) == s.nil \/ Indexable(s)

\* the options pointer: the caller's array when it has NoOptions entries,
\* else nil (the engine's defaults)
OptsPtr(options) ==
    IF ~options.nil /\ len(options) = NoOptions THEN options ELSE Nil

\* faulty variant: the engine is handed another buffer, the caller's stays
\* as make left it
FilledNot(buf, status, data) == buf

\* what the engine left in a buffer the wrapper allocated and passed by
\* pointer: on success its entries, as many as the buffer holds
Filled(buf, status, data) ==
    IF status = OK THEN Slice([i \in 1..len(buf) |-> data[i]]) ELSE buf

\* faulty variant: the objective value is never copied out
PartReturnNoObjval(ret, part, objval) ==
    IF ret # OK
    THEN [NoOut EXCEPT !.outcome = "returned", !.ret = ret,
                       !.err = getError(ret)]
    ELSE [NoOut EXCEPT !.outcome = "returned", !.ret = ret, !.part = part]

\* if ret != OK { return nil, 0, getError(ret) }; return part, objval, nil
PartReturn(ret, part, objval) ==
    IF ret # OK
    THEN [NoOut EXCEPT !.outcome = "returned", !.ret = ret,
                       !.err = getError(ret)]
    ELSE [NoOut EXCEPT !.outcome = "returned", !.ret = ret,
                       !.part = part, !.objval = objval]

PartGraphRecursive(xadj, adjncy, nparts, options) ==
    LET nvtxs == len(xadj) - 1
    IN IF nvtxs < 0 THEN {Panic}
       ELSE IF ~Indexable(xadj) \/ ~Indexable(adjncy) \/ nvtxs = 0
       THEN {Panic}
       ELSE {PartReturn(e.status, Filled(MakeSlice(nvtxs), e.status, e.part),
                        e.objval) :
                e \in METIS_PartGraphRecursive(nvtxs, 1, xadj, adjncy,
                          Nil, Nil, Nil, nparts, Nil, Nil, OptsPtr(options))}

PartGraphKway(xadj, adjncy, nparts, options) ==
    LET nvtxs == len(xadj) - 1
    IN IF nvtxs < 0 THEN {Panic}
       ELSE IF ~Indexable(xadj) \/ ~Indexable(adjncy) \/ nvtxs = 0
       THEN {Panic}
       ELSE {PartReturn(e.status, Filled(MakeSlice(nvtxs), e.status, e.part),
                        e.objval) :
                e \in METIS_PartGraphKway(nvtxs, 1, xadj, adjncy,
                          Nil, Nil, Nil, nparts, Nil, Nil, OptsPtr(options))}

\* faulty variant: the target fractions never reach the engine
PartGraphRecursiveWeightedNoTpwgts(xadj, adjncy, vwgt, adjwgt, nparts, tpwgts, ubvec, options) ==
    LET nvtxs == len(xadj) - 1
    IN IF ~vwgt.nil /\ len(vwgt) # nvtxs
       THEN {InputError("vwgt length must equal number of vertices")}
       ELSE IF ~adjwgt.nil /\ len(adjwgt) # len(adjncy)
       THEN {InputError("adjwgt length must equal adjncy length")}
       ELSE IF nvtxs < 0 THEN {Panic}
       ELSE IF ~IndexableOrNil(vwgt) \/ ~IndexableOrNil(adjwgt)
                 \/ ~IndexableOrNil(tpwgts) \/ ~IndexableOrNil(ubvec)
       THEN {Panic}
       ELSE IF ~Indexable(xadj) \/ ~Indexable(adjncy) \/ nvtxs = 0
       THEN {Panic}
       ELSE {PartReturn(e.status, Filled(MakeSlice(nvtxs), e.status, e.part),
                        e.objval) :
                e \in METIS_PartGraphRecursive(nvtxs, 1, xadj, adjncy,
                          vwgt, Nil, adjwgt, nparts, Nil, ubvec,
                          OptsPtr(options))}

PartGraphRecursiveWeighted(xadj, adjncy, vwgt, adjwgt, nparts, tpwgts, ubvec, options) ==
    LET nvtxs == len(xadj) - 1
    IN IF ~vwgt.nil /\ len(vwgt) # nvtxs
       THEN {InputError("vwgt length must equal number of vertices")}
       ELSE IF ~adjwgt.nil /\ len(adjwgt) # len(adjncy)
       THEN {InputError("adjwgt length must equal adjncy length")}
       ELSE IF nvtxs < 0 THEN {Panic}
       ELSE IF ~IndexableOrNil(vwgt) \/ ~IndexableOrNil(adjwgt)
                 \/ ~IndexableOrNil(tpwgts) \/ ~IndexableOrNil(ubvec)
       THEN {Panic}
       ELSE IF ~Indexable(xadj) \/ ~Indexable(adjncy) \/ nvtxs = 0
       THEN {Panic}
       ELSE {PartReturn(e.status, Filled(MakeSlice(nvtxs), e.status, e.part),
                        e.objval) :
                e \in METIS_PartGraphRecursive(nvtxs, 1, xadj, adjncy,
                          vwgt, Nil, adjwgt, nparts, tpwgts, ubvec,
                          OptsPtr(options))}

\* faulty variant: the vertex weights never reach the engine
PartGraphKwayWeightedNoVwgt(xadj, adjncy, vwgt, adjwgt, nparts, tpwgts, ubvec, options) ==
    LET nvtxs == len(xadj) - 1
    IN IF ~vwgt.nil /\ len(vwgt) # nvtxs
       THEN {InputError("vwgt length must equal number of vertices")}
       ELSE IF ~adjwgt.nil /\ len(adjwgt) # len(adjncy)
       THEN {InputError("adjwgt length must equal adjncy length")}
       ELSE IF nvtxs < 0 THEN {Panic}
       ELSE IF ~IndexableOrNil(vwgt) \/ ~IndexableOrNil(adjwgt)
                 \/ ~IndexableOrNil(tpwgts) \/ ~IndexableOrNil(ubvec)
       THEN {Panic}
       ELSE IF ~Indexable(xadj) \/ ~Indexable(adjncy) \/ nvtxs = 0
       THEN {Panic}
       ELSE {PartReturn(e.status, Filled(MakeSlice(nvtxs), e.status, e.part),
                        e.objval) :
                e \in METIS_PartGraphKway(nvtxs, 1, xadj, adjncy,
                          Nil, Nil, adjwgt, nparts, tpwgts, ubvec,
                          OptsPtr(options))}

PartGraphKwayWeighted(xadj, adjncy, vwgt, adjwgt, nparts, tpwgts, ubvec, options) ==
    LET nvtxs == len(xadj) - 1
    IN IF ~vwgt.nil /\ len(vwgt) # nvtxs
       THEN {InputError("vwgt length must equal number of vertices")}
       ELSE IF ~adjwgt.nil /\ len(adjwgt) # len(adjncy)
       THEN {InputError("adjwgt length must equal adjncy length")}
       ELSE IF nvtxs < 0 THEN {Panic}
       ELSE IF ~IndexableOrNil(vwgt) \/ ~IndexableOrNil(adjwgt)
                 \/ ~IndexableOrNil(tpwgts) \/ ~IndexableOrNil(ubvec)
       THEN {Panic}
       ELSE IF ~Indexable(xadj) \/ ~Indexable(adjncy) \/ nvtxs = 0
       THEN {Panic}
       ELSE {PartReturn(e.status, Filled(MakeSlice(nvtxs), e.status, e.part),
                        e.objval) :
                e \in METIS_PartGraphKway(nvtxs, 1, xadj, adjncy,
                          vwgt, Nil, adjwgt, nparts, tpwgts, ubvec,
                          OptsPtr(options))}

\* faulty variant: one offset too few is copied out
GraphReturnShort(ret, xadj, adjncy, n) ==
    IF ret # OK
    THEN [NoOut EXCEPT !.outcome = "returned", !.ret = ret,
                       !.err = getError(ret)]
    ELSE LET xadjSlice == [i \in 1..n |-> xadj[i]]
             adjSize == xadj[n + 1]
             adjncySlice == [i \in 1..adjSize |-> adjncy[i]]
         IN [NoOut EXCEPT !.outcome = "returned", !.ret = ret,
                          !.xadj = Slice(xadjSlice),
                          !.adjncy = Slice(adjncySlice)]

\* engine: every option is set to -1, which asks for its default
METIS_SetDefaultOptions(opts) ==
    {[status |-> OK, opts |-> [i \in 1..NoOptions |-> -1]]}

\* faulty variant: an array of the wrong length is filled before the error
\* is returned
SetDefaultOptionsUnchecked(opts) ==
    IF len(opts) # NoOptions
    THEN {[out |-> InputError("options array must have 40 elements"),
           opts |-> Slice([i \in 1..len(opts) |-> -1])]}
    ELSE {[out |-> [NoOut EXCEPT !.outcome = "returned", !.ret = e.status,
                       !.err = IF e.status # OK THEN getError(e.status)
                               ELSE NoError],
           opts |-> Slice(e.opts)] : e \in METIS_SetDefaultOptions(opts)}

\* SetDefaultOptions: the outcome, and the caller's array after the call;
\* an array of another length than NoOptions is an error and is not handed
\* to the engine, which writes through the pointer it gets
SetDefaultOptions(opts) ==
    IF len(opts) # NoOptions
    THEN {[out |-> InputError("options array must have 40 elements"),
           opts |-> opts]}
    ELSE {[out |-> [NoOut EXCEPT !.outcome = "returned", !.ret = e.status,
                       !.err = IF e.status # OK THEN getError(e.status)
                               ELSE NoError],
           opts |-> Slice(e.opts)] : e \in METIS_SetDefaultOptions(opts)}

\* if ret != OK { return nil, nil, getError(ret) }; else the engine's C
\* arrays copied out: n+1 offsets, then xadj[n] neighbours
GraphReturn(ret, xadj, adjncy, n) ==
    IF ret # OK
    THEN [NoOut EXCEPT !.outcome = "returned", !.ret = ret,
                       !.err = getError(ret)]
    ELSE LET xadjSlice == [i \in 1..(n + 1) |-> xadj[i]]
             adjSize == xadjSlice[n + 1]
             adjncySlice == [i \in 1..adjSize |-> adjncy[i]]
         IN [NoOut EXCEPT !.outcome = "returned", !.ret = ret,
                          !.xadj = Slice(xadjSlice),
                          !.adjncy = Slice(adjncySlice)]

\* faulty variant: the engine is asked for one shared node, whatever ncommon
MeshToDualOneCommon(ne, nn, eptr, eind, ncommon) ==
    IF ~Indexable(eptr) \/ ~Indexable(eind) THEN {Panic}
    ELSE {GraphReturn(e.status, e.xadj, e.adjncy, ne) :
             e \in METIS_MeshToDual(ne, nn, eptr, eind, 1, 0)}

\* the dual graph of a mesh: the engine's arrays, ne+1 offsets copied out
MeshToDual(ne, nn, eptr, eind, ncommon) ==
    IF ~Indexable(eptr) \/ ~Indexable(eind) THEN {Panic}
    ELSE {GraphReturn(e.status, e.xadj, e.adjncy, ne) :
             e \in METIS_MeshToDual(ne, nn, eptr, eind, ncommon, 0)}

\* faulty variant: the offsets are counted by elements, not by nodes
MeshToNodalByElements(ne, nn, eptr, eind) ==
    IF ~Indexable(eptr) \/ ~Indexable(eind) THEN {Panic}
    ELSE {GraphReturn(e.status, e.xadj, e.adjncy, ne) :
             e \in METIS_MeshToNodal(ne, nn, eptr, eind, 0)}

\* the nodal graph of a mesh: the engine's arrays, nn+1 offsets copied out
MeshToNodal(ne, nn, eptr, eind) ==
    IF ~Indexable(eptr) \/ ~Indexable(eind) THEN {Panic}
    ELSE {GraphReturn(e.status, e.xadj, e.adjncy, nn) :
             e \in METIS_MeshToNodal(ne, nn, eptr, eind, 0)}

\* MeshToDual and MeshToNodal once more, statement by statement, to follow
\* the two buffers the engine allocates.  A call in progress holds: step,
\* the statement it is at; n, the vertex count of the graph asked for (ne
\* or nn); ret; the engine's buffers xadj and adjncy; the slices xadjSlice
\* and adjncySlice; the loop counter i; returned, the memory the returned
\* slices point into.  read and wild record what has been read so far.

\* var xadj, adjncy *C.idx_t
NoBuffer == [state |-> "none", data |-> <<>>, frees |-> 0]

\* engine: with status OK the two pointers are set to arrays it has
\* allocated; with any other status they are left as they were
engineBuffer(status, data) ==
    IF status = OK THEN [state |-> "live", data |-> data, frees |-> 0]
    ELSE NoBuffer

\* ret := C.METIS_MeshToDual(...) or C.METIS_MeshToNodal(...), e its answer
conversion(n, e) ==
    [step |-> "check", n |-> n, ret |-> e.status,
     xadj |-> engineBuffer(e.status, e.xadj),
     adjncy |-> engineBuffer(e.status, e.adjncy),
     xadjSlice |-> Nil, adjncySlice |-> Nil, i |-> 0,
     read |-> FALSE, wild |-> FALSE, returned |-> {}]

\* *(*C.idx_t)(... + i*sizeof(idx_t)): element i of a live buffer; a read
\* through a nil or released pointer, or past the end, may give anything
readBuffer(buf, i) ==
    IF buf.state = "live" /\ i < Len(buf.data)
    THEN {[v |-> buf.data[i + 1], wild |-> FALSE]}
    ELSE {[v |-> x, wild |-> TRUE] : x \in {-1, 0}}

\* faulty variant: the copy loops run whatever the engine said
checkRetIgnored(w) ==
    [w EXCEPT !.step = "copyXadj", !.xadjSlice = MakeSlice(w.n + 1), !.i = 0]

\* if ret != OK { return nil, nil, getError(ret) }
\* xadjSlice := make([]int32, n+1)
checkRet(w) ==
    IF w.ret # OK THEN [w EXCEPT !.step = "return"]
    ELSE [w EXCEPT !.step = "copyXadj", !.xadjSlice = MakeSlice(w.n + 1),
                   !.i = 0]

\* for i := 0; i < int(n+1); i++ { xadjSlice[i] = ... }
\* adjSize := xadjSlice[n]; adjncySlice := make([]int32, adjSize)
copyXadj(w) ==
    IF w.i < w.n + 1
    THEN {[w EXCEPT !.xadjSlice.v[w.i + 1] = r.v, !.i = w.i + 1,
                    !.read = TRUE, !.wild = @ \/ r.wild] :
             r \in readBuffer(w.xadj, w.i)}
    ELSE LET adjSize == w.xadjSlice.v[w.n + 1]
         IN IF adjSize < 0 THEN {[w EXCEPT !.step = "panic"]}
            ELSE {[w EXCEPT !.step = "copyAdjncy",
                            !.adjncySlice = MakeSlice(adjSize), !.i = 0]}

\* for i := 0; i < int(adjSize); i++ { adjncySlice[i] = ... }
copyAdjncy(w) ==
    IF w.i < len(w.adjncySlice)
    THEN {[w EXCEPT !.adjncySlice.v[w.i + 1] = r.v, !.i = w.i + 1,
                    !.read = TRUE, !.wild = @ \/ r.wild] :
             r \in readBuffer(w.adjncy, w.i)}
    ELSE {[w EXCEPT !.step = "freeXadj"]}

\* engine: METIS_Free gives the array back to the allocator; of a nil
\* pointer it does nothing
METIS_Free(buf) ==
    IF buf.state = "none" THEN buf
    ELSE [state |-> "freed", data |-> <<>>, frees |-> buf.frees + 1]

\* faulty variant: the slices handed back are views of the engine's arrays
returnBuffers(w) ==
    [w EXCEPT !.step = "returned", !.returned = {"xadj", "adjncy"}]

\* return xadjSlice, adjncySlice, nil
returnSlices(w) ==
    [w EXCEPT !.step = "returned", !.returned = {"xadjSlice", "adjncySlice"}]

\* faulty variant: the buffers are handed back whatever the engine said
MeshPartReturnPartial(ret, objval, epart, npart) ==
    IF ret # OK
    THEN [NoOut EXCEPT !.outcome = "returned", !.ret = ret,
                       !.err = getError(ret),
                       !.epart = epart, !.npart = npart]
    ELSE [NoOut EXCEPT !.outcome = "returned", !.ret = ret,
                       !.objval = objval, !.epart = epart, !.npart = npart]

\* if ret != OK { return 0, nil, nil, getError(ret) }
\* return int32(objval), epart, npart, nil
MeshPartReturn(ret, objval, epart, npart) ==
    IF ret # OK
    THEN [NoOut EXCEPT !.outcome = "returned", !.ret = ret,
                       !.err = getError(ret)]
    ELSE [NoOut EXCEPT !.outcome = "returned", !.ret = ret,
                       !.objval = objval, !.epart = epart, !.npart = npart]

PartMeshNodal(ne, nn, eptr, eind, vwgt, vsize, nparts, tpwgts, options) ==
    IF ne < 0 \/ nn < 0 THEN {Panic}
    ELSE IF ~IndexableOrNil(vwgt) \/ ~IndexableOrNil(vsize)
              \/ ~IndexableOrNil(tpwgts)
    THEN {Panic}
    ELSE IF ~Indexable(eptr) \/ ~Indexable(eind) \/ ne = 0 \/ nn = 0
    THEN {Panic}
    ELSE {MeshPartReturn(e.status, e.objval,
                         Filled(MakeSlice(ne), e.status, e.epart),
                         Filled(MakeSlice(nn), e.status, e.npart)) :
             e \in METIS_PartMeshNodal(ne, nn, eptr, eind, vwgt, vsize,
                                       nparts, tpwgts, OptsPtr(options))}

PartMeshDual(ne, nn, eptr, eind, vwgt, vsize, ncommon, nparts, tpwgts, options) ==
    IF ne < 0 \/ nn < 0 THEN {Panic}
    ELSE IF ~IndexableOrNil(vwgt) \/ ~IndexableOrNil(vsize)
              \/ ~IndexableOrNil(tpwgts)
    THEN {Panic}
    ELSE IF ~Indexable(eptr) \/ ~Indexable(eind) \/ ne = 0 \/ nn = 0
    THEN {Panic}
    ELSE {MeshPartReturn(e.status, e.objval,
                         Filled(MakeSlice(ne), e.status, e.epart),
                         Filled(MakeSlice(nn), e.status, e.npart)) :
             e \in METIS_PartMeshDual(ne, nn, eptr, eind, vwgt, vsize,
                                      ncommon, nparts, tpwgts,
                                      OptsPtr(options))}

\* the vertex-weight pointer of NodeND and ComputeVertexSeparator: the
\* caller's array when it has one entry per vertex, else nil
VwgtPtr(vwgt, nvtxs) ==
    IF ~vwgt.nil /\ len(vwgt) = nvtxs THEN vwgt ELSE Nil

\* faulty variant: perm is handed back twice
NDReturnSame(ret, perm, iperm) ==
    IF ret # OK
    THEN [NoOut EXCEPT !.outcome = "returned", !.ret = ret,
                       !.err = getError(ret)]
    ELSE [NoOut EXCEPT !.outcome = "returned", !.ret = ret,
                       !.perm = perm, !.iperm = perm]

\* if ret != OK { return nil, nil, getError(ret) }; return perm, iperm, nil
NDReturn(ret, perm, iperm) ==
    IF ret # OK
    THEN [NoOut EXCEPT !.outcome = "returned", !.ret = ret,
                       !.err = getError(ret)]
    ELSE [NoOut EXCEPT !.outcome = "returned", !.ret = ret,
                       !.perm = perm, !.iperm = iperm]

\* faulty variant: an options array of the wrong length is turned down
NodeNDOptionsChecked(xadj, adjncy, vwgt, options) ==
    LET nvtxs == len(xadj) - 1
        vwgtPtr == VwgtPtr(vwgt, nvtxs)
    IN IF ~options.nil /\ len(options) # NoOptions
       THEN {InputError("options array must have 40 elements")}
       ELSE IF nvtxs < 0 THEN {Panic}
       ELSE IF ~IndexableOrNil(vwgtPtr) THEN {Panic}
       ELSE IF ~Indexable(xadj) \/ ~Indexable(adjncy) \/ nvtxs = 0
       THEN {Panic}
       ELSE {NDReturn(e.status, Filled(MakeSlice(nvtxs), e.status, e.perm),
                      Filled(MakeSlice(nvtxs), e.status, e.iperm)) :
                e \in METIS_NodeND(nvtxs, xadj, adjncy, vwgtPtr,
                                   OptsPtr(options))}

NodeND(xadj, adjncy, vwgt, options) ==
    LET nvtxs == len(xadj) - 1
        vwgtPtr == VwgtPtr(vwgt, nvtxs)
    IN IF nvtxs < 0 THEN {Panic}
       ELSE IF ~IndexableOrNil(vwgtPtr) THEN {Panic}
       ELSE IF ~Indexable(xadj) \/ ~Indexable(adjncy) \/ nvtxs = 0
       THEN {Panic}
       ELSE {NDReturn(e.status, Filled(MakeSlice(nvtxs), e.status, e.perm),
                      Filled(MakeSlice(nvtxs), e.status, e.iperm)) :
                e \in METIS_NodeND(nvtxs, xadj, adjncy, vwgtPtr,
                                   OptsPtr(options))}

\* faulty variant: the separator size is never copied out
SepReturnNoSize(ret, sepsize, part) ==
    IF ret # OK
    THEN [NoOut EXCEPT !.outcome = "returned", !.ret = ret,
                       !.err = getError(ret)]
    ELSE [NoOut EXCEPT !.outcome = "returned", !.ret = ret, !.part = part]

\* if ret != OK { return 0, nil, getError(ret) }
\* return int32(sepsize), part, nil
SepReturn(ret, sepsize, part) ==
    IF ret # OK
    THEN [NoOut EXCEPT !.outcome = "returned", !.ret = ret,
                       !.err = getError(ret)]
    ELSE [NoOut EXCEPT !.outcome = "returned", !.ret = ret,
                       !.sepsize = sepsize, !.part = part]

ComputeVertexSeparator(xadj, adjncy, vwgt, options) ==
    LET nvtxs == len(xadj) - 1
        vwgtPtr == VwgtPtr(vwgt, nvtxs)
    IN IF nvtxs < 0 THEN {Panic}
       ELSE IF ~IndexableOrNil(vwgtPtr) THEN {Panic}
       ELSE IF ~Indexable(xadj) \/ ~Indexable(adjncy) \/ nvtxs = 0
       THEN {Panic}
       ELSE {SepReturn(e.status, e.sepsize,
                       Filled(MakeSlice(nvtxs), e.status, e.part)) :
                e \in METIS_ComputeVertexSeparator(nvtxs, xadj, adjncy,
                                                   vwgtPtr, OptsPtr(options))}

-----------------------------------------------------------------------------
(* The graph utilities and the oracles of the tests.                        *)

\* the Graph struct
NewGraph(xadj, adjncy) ==
    [Xadj |-> xadj, Adjncy |-> adjncy, Vwgt |-> Nil, Adjwgt |-> Nil]

NumVertices(g) == len(g.Xadj) - 1

\* the sum over the vertices i and their CSR entries j of f[j] where the two
\* ends lie in different parts: the loop that verifyPart, verifyWPart and
\* CalculateEdgeCut share
cut(nvtxs, xadj, adjncy, localAdjwgt, part) ==
    SumSeq([i \in 1..nvtxs |->
        SumSeq([k \in 1..(xadj.v[i + 1] - xadj.v[i]) |->
            LET j == xadj.v[i] + k
            IN IF part.v[i] # part.v[adjncy.v[j] + 1]
               THEN localAdjwgt[j] ELSE 0])])

\* adjwgt, or 1 for every CSR entry when it is nil
localAdjwgt(adjwgt, adjncy) ==
    IF adjwgt.nil THEN [j \in 1..len(adjncy) |-> 1] ELSE adjwgt.v

\* vwgt, or 1 for every vertex when it is nil
localVwgt(vwgt, nvtxs) ==
    IF vwgt.nil THEN [i \in 1..nvtxs |-> 1] ELSE vwgt.v

\* a + b in int32: the sum wraps around
add32(a, b) ==
    IF b > 0 /\ a > MaxInt32 - b
    THEN (a - MaxInt32 - 1) + (b - MaxInt32 - 1)
    ELSE IF b < 0 /\ a < (0 - MaxInt32 - 1) - b
    THEN (a + MaxInt32 + 1) + (b + MaxInt32 + 1)
    ELSE a + b

\* edgeCut += s[1]; edgeCut += s[2]; ... in int32, from 0
RECURSIVE Sum32(_)
Sum32(s) ==
    IF s = <<>> THEN 0
    ELSE add32(Sum32(SubSeq(s, 1, Len(s) - 1)), s[Len(s)])

\* what the CSR entries add to edgeCut, in the order of the two loops
cutTerms(nvtxs, xadj, adjncy, adjwgt, part) ==
    Concat([i \in 1..nvtxs |->
        [k \in 1..(xadj.v[i + 1] - xadj.v[i]) |->
            LET j == xadj.v[i] + k
            IN IF part.v[i] # part.v[adjncy.v[j] + 1]
               THEN localAdjwgt(adjwgt, adjncy)[j] ELSE 0]])

\* faulty variant: the sum is handed back as it is, every edge twice
CalculateEdgeCutTwice(g, part) ==
    Sum32(cutTerms(NumVertices(g), g.Xadj, g.Adjncy, g.Adjwgt, part))

\* the int32 sum over the CSR entries whose ends lie in different parts,
\* halved: return edgeCut / 2
CalculateEdgeCut(g, part) ==
    quo(Sum32(cutTerms(NumVertices(g), g.Xadj, g.Adjncy, g.Adjwgt, part)), 2)

\* partWeights[part[i]] += weight for the vertices from i on (0-based), the
\* weight 1 where vwgt has no entry
RECURSIVE partWeights(_, _, _, _)
partWeights(part, vwgt, i, pw) ==
    IF i >= len(part) THEN pw
    ELSE LET weight == IF ~vwgt.nil /\ i < len(vwgt) THEN vwgt.v[i + 1]
                       ELSE 1
         IN partWeights(part, vwgt, i + 1,
                        [pw EXCEPT ![part.v[i + 1] + 1] = @ + weight])

\* the loop over partWeights from entry k on (1-based): the total, the
\* least and the largest seen
RECURSIVE scanWeights(_, _, _)
scanWeights(pw, k, st) ==
    IF k > Len(pw) THEN st
    ELSE scanWeights(pw, k + 1,
             [total |-> st.total + pw[k],
              min |-> IF pw[k] < st.min THEN pw[k] ELSE st.min,
              max |-> IF pw[k] > st.max THEN pw[k] ELSE st.max])

\* faulty variant: the least weight is looked for from 0 on
scanStartZero(pw) == [total |-> 0, min |-> 0, max |-> 0]

\* totalWeight := 0; minWeight := partWeights[0]; maxWeight := partWeights[0]
scanStart(pw) == [total |-> 0, min |-> pw[1], max |-> pw[1]]

\* CalculatePartitionBalance: make panics on a negative nparts, the indices
\* part[i] and 0 on one outside partWeights; avg is the quotient
\* totalWeight / nparts, held as a fraction
CalculatePartitionBalance(part, vwgt, nparts) ==
    IF nparts < 0 THEN Panic
    ELSE IF \E i \in 1..len(part) : part.v[i] \notin 0..(nparts - 1)
    THEN Panic
    ELSE IF nparts = 0 THEN Panic
    ELSE LET pw == partWeights(part, vwgt, 0, [p \in 1..nparts |-> 0])
             st == scanWeights(pw, 1, scanStart(pw))
         IN [NoOut EXCEPT !.outcome = "returned",
                !.min = st.min, !.max = st.max,
                !.avg = [num |-> st.total, den |-> nparts]]

\* verifyPart, verifyWPart: the largest part id, starting from 0
maxPart(part) == Max({0} \cup {part.v[i] : i \in 1..len(part)})

\* verifyPart, verifyWPart: pwgts[part[i]] += localVwgt[i]
pwgts(nvtxs, vwgt, nparts, part) ==
    [p \in 0..(nparts - 1) |->
        SumSeq([i \in 1..nvtxs |->
            IF part.v[i] = p THEN localVwgt(vwgt, nvtxs)[i] ELSE 0])]

\* verifyPart, verifyWPart: the sum of pwgts
totalWgt(nvtxs, vwgt, nparts, part) ==
    SumSeq([i \in 1..nparts |-> pwgts(nvtxs, vwgt, nparts, part)[i - 1]])

\* verifyPart: the largest of pwgts, starting from 0
maxWgt(nvtxs, vwgt, nparts, part) ==
    Max({0} \cup {pwgts(nvtxs, vwgt, nparts, part)[p] : p \in 0..(nparts - 1)})

\* verifyPart: 1.10, and 1.20 from 16 parts on, in hundredths
balanceFactor(nparts) == IF nparts >= 16 THEN 120 ELSE 110

\* verifyPart's balance test passes:
\* !(nparts * maxWgt > balanceFactor * totalWgt)
balancedPart(nvtxs, vwgt, nparts, part) ==
    100 * nparts * maxWgt(nvtxs, vwgt, nparts, part)
        <= balanceFactor(nparts) * totalWgt(nvtxs, vwgt, nparts, part)

\* verifyWPart's balance test passes: for no part i
\* pwgts[i] > 1.10 * tpwgts[i] * totalWgt (tpwgts in hundredths)
balancedWPart(nvtxs, vwgt, nparts, tpwgts, part) ==
    \A i \in 0..(nparts - 1) :
        100 * 100 * pwgts(nvtxs, vwgt, nparts, part)[i]
            <= 110 * tpwgts.v[i + 1] * totalWgt(nvtxs, vwgt, nparts, part)

\* verifyND: 0 when perm and iperm undo each other; else, at the first
\* vertex where they do not, 1 if perm[iperm[i]] is off and 2 otherwise
verifyND(nvtxs, perm, iperm) ==
    LET bad == {i \in 0..(nvtxs - 1) :
                   \/ i # perm.v[iperm.v[i + 1] + 1]
                   \/ i # iperm.v[perm.v[i + 1] + 1]}
    IN IF bad = {} THEN 0
       ELSE LET i == CHOOSE x \in bad : \A y \in bad : x <= y
            IN IF i # perm.v[iperm.v[i + 1] + 1] THEN 1 ELSE 2

\* only the value comes back: return len(g.Adjncy) / 2
NumEdges(g) == len(g.Adjncy) \div 2

\* a value returned by an accessor
Value(n) == [NoOut EXCEPT !.outcome = "returned", !.value = n]

\* return int(g.Xadj[v+1] - g.Xadj[v]); an index outside Xadj panics
Degree(g, v) ==
    IF v < 0 \/ v + 2 > len(g.Xadj) THEN Panic
    ELSE Value(g.Xadj.v[v + 2] - g.Xadj.v[v + 1])

\* return g.Adjncy[start:end]; an index outside Xadj, or bounds that are no
\* range of Adjncy, panic
Neighbors(g, v) ==
    IF v < 0 \/ v + 2 > len(g.Xadj) THEN Panic
    ELSE LET start == g.Xadj.v[v + 1]
             end == g.Xadj.v[v + 2]
         IN IF start < 0 \/ start > end \/ end > len(g.Adjncy) THEN Panic
            ELSE [NoOut EXCEPT !.outcome = "returned",
                     !.list = Slice(SubSeq(g.Adjncy.v, start + 1, end))]

\* the Graph of the arrays the conversion returned, or its error
ConvertMeshToGraph(ne, nn, eptr, eind, dual, ncommon) ==
    {IF o.outcome = "panic" THEN o
     ELSE IF o.err # NoError
     THEN [NoOut EXCEPT !.outcome = "returned", !.ret = o.ret, !.err = o.err]
     ELSE [NoOut EXCEPT !.outcome = "returned", !.ret = o.ret,
                        !.graph = Ref(NewGraph(o.xadj, o.adjncy))] :
        o \in IF dual THEN MeshToDual(ne, nn, eptr, eind, ncommon)
              ELSE MeshToNodal(ne, nn, eptr, eind)}

\* bufio.Scanner with its default split: the text cut at the newlines; what
\* follows the last newline is a line only if it is not empty
RECURSIVE ScanLines(_)
ScanLines(text) ==
    IF text = <<>> THEN <<>>
    ELSE LET nl == {k \in 1..Len(text) : text[k] = "\n"}
         IN IF nl = {} THEN <<text>>
            ELSE LET k == CHOOSE x \in nl : \A y \in nl : x <= y
                 IN <<SubSeq(text, 1, k - 1)>>
                        \o ScanLines(SubSeq(text, k + 1, Len(text)))

\* strings.Fields: the maximal runs of non-blank characters of the line
RECURSIVE Fields(_)
Fields(line) ==
    IF line = <<>> THEN <<>>
    ELSE IF Head(line) = " " THEN Fields(Tail(line))
    ELSE LET sp == {k \in 1..Len(line) : line[k] = " "}
             end == IF sp = {} THEN Len(line) + 1
                    ELSE CHOOSE x \in sp : \A y \in sp : x <= y
         IN <<SubSeq(line, 1, end - 1)>>
                \o Fields(SubSeq(line, end, Len(line)))

isDigit(c) == \E d \in 1..10 : Digits[d] = c

digitVal(c) == (CHOOSE d \in 1..10 : Digits[d] = c) - 1

\* the number a run of digits denotes
RECURSIVE decimal(_)
decimal(s) ==
    IF s = <<>> THEN 0
    ELSE 10 * decimal(SubSeq(s, 1, Len(s) - 1)) + digitVal(s[Len(s)])

\* strconv.Atoi: an optional sign and at least one digit, else 0 and an error
\* (the numerals of the model fit an int)
Atoi(s) ==
    LET signed == s # <<>> /\ Head(s) \in {"+", "-"}
        body == IF signed THEN Tail(s) ELSE s
    IN IF body = <<>> \/ \E k \in 1..Len(body) : ~isDigit(body[k])
       THEN [err |-> TRUE, val |-> 0]
       ELSE [err |-> FALSE,
             val |-> IF signed /\ Head(s) = "-" THEN 0 - decimal(body)
                     ELSE decimal(body)]

\* the loop over the fields of one vertex line, from field j (0-based) on:
\* with edge weights every second field after fieldIdx is a weight, every
\* other field is a neighbour, stored as v - 1
RECURSIVE readAdjacency(_, _, _, _, _)
readAdjacency(fields, j, fieldIdx, hasEdgeWeights, st) ==
    IF j >= Len(fields) THEN st
    ELSE LET a == Atoi(fields[j + 1])
         IN IF hasEdgeWeights /\ (j - fieldIdx) % 2 = 1
            THEN IF a.err THEN [st EXCEPT !.err = "invalid edge weight"]
                 ELSE readAdjacency(fields, j + 1, fieldIdx, hasEdgeWeights,
                          [st EXCEPT !.adjwgt = Append(@, a.val)])
            ELSE IF a.err THEN [st EXCEPT !.err = "invalid vertex id"]
                 ELSE readAdjacency(fields, j + 1, fieldIdx, hasEdgeWeights,
                          [st EXCEPT !.adjncy = Append(@, a.val - 1)])

\* the loop over the vertices, from vertex i on: a missing line is an error,
\* a line without fields is passed over, and after any other line
\* xadj[i+1] = len(adjncy)
RECURSIVE readVertices(_, _, _, _, _, _)
readVertices(lines, i, nvtxs, hasVertexWeights, hasEdgeWeights, st) ==
    IF i >= nvtxs THEN st
    ELSE IF i + 2 > Len(lines) THEN [st EXCEPT !.err = "unexpected EOF"]
    ELSE LET fields == Fields(lines[i + 2])
         IN IF Len(fields) = 0
            THEN readVertices(lines, i + 1, nvtxs, hasVertexWeights,
                              hasEdgeWeights, st)
            ELSE LET w == Atoi(fields[1])
                     fieldIdx == IF hasVertexWeights THEN 1 ELSE 0
                     st1 == IF hasVertexWeights
                            THEN [st EXCEPT !.vwgt = Append(@, w.val)] ELSE st
                     st2 == readAdjacency(fields, fieldIdx, fieldIdx,
                                          hasEdgeWeights, st1)
                 IN IF hasVertexWeights /\ w.err
                    THEN [st EXCEPT !.err = "invalid vertex weight"]
                    ELSE IF st2.err # NoError THEN st2
                    ELSE readVertices(lines, i + 1, nvtxs, hasVertexWeights,
                             hasEdgeWeights,
                             [st2 EXCEPT !.xadj[i + 2] = Len(st2.adjncy)])

\* ReadGraphFile: the header, then nvtxs vertex lines; make panics on a
\* negative length and xadj[0] = 0 on an empty xadj
ReadGraphFile(text) ==
    LET lines == ScanLines(text)
        header == Fields(lines[1])
        nvtxs == Atoi(header[1])
        fmt == Atoi(header[3]).val
        hasVertexWeights == Len(header) >= 3 /\ rem(quo(fmt, 10), 10) = 1
        hasEdgeWeights == Len(header) >= 3 /\ rem(fmt, 10) = 1
        st == readVertices(lines, 0, nvtxs.val, hasVertexWeights,
                  hasEdgeWeights,
                  [err |-> NoError, xadj |-> [i \in 1..(nvtxs.val + 1) |-> 0],
                   adjncy |-> <<>>, vwgt |-> <<>>, adjwgt |-> <<>>])
    IN IF Len(lines) = 0 THEN InputError("empty file")
       ELSE IF Len(header) < 2 THEN InputError("invalid header")
       ELSE IF nvtxs.err THEN InputError("invalid number of vertices")
       ELSE IF nvtxs.val + 1 < 1 THEN Panic
       ELSE IF st.err # NoError THEN InputError(st.err)
       ELSE [NoOut EXCEPT !.outcome = "returned",
                !.graph = [null |-> FALSE, Xadj |-> Slice(st.xadj),
                           Adjncy |-> Slice(st.adjncy),
                           Vwgt |-> IF hasVertexWeights THEN Slice(st.vwgt)
                                    ELSE Nil,
                           Adjwgt |-> IF hasEdgeWeights THEN Slice(st.adjwgt)
                                      ELSE Nil]]

-----------------------------------------------------------------------------
(* The state machine: the caller makes a call, looks at what it got, and    *)
(* goes on to the next call.                                                *)

NoArgs ==
    [op |-> "none", xadj |-> Nil, adjncy |-> Nil, vwgt |-> Nil,
     adjwgt |-> Nil, nparts |-> 0, tpwgts |-> Nil, ubvec |-> Nil,
     options |-> Nil, ne |-> 0, nn |-> 0, eptr |-> Nil, eind |-> Nil,
     vsize |-> Nil, ncommon |-> 0, dual |-> FALSE, g |-> NilGraph, v |-> 0,
     text |-> <<>>, written |-> FALSE, part |-> Nil]

\* no call kept
NoCall == [args |-> NoArgs, out |-> NoOut]

\* no call in progress
NoWork == [step |-> "none"]

\* engine: the options in force: the default wherever none is supplied, and
\* -1 in an array asks for the default of that entry
EffectiveOptions(opts) ==
    IF opts.nil THEN [i \in 1..NoOptions |-> -1] ELSE opts.v

\* engine: what a graph partitioning run is a function of: the operation,
\* the graph, the number of parts and the options in force, the seed of the
\* random numbers among them (the wrapper passes the options through OptsPtr)
EngineKey(a) ==
    <<a.op, a.xadj, a.adjncy, a.nparts, EffectiveOptions(OptsPtr(a.options))>>

\* faulty variant: the random numbers go on from where the last run left them
SeededNot(outs, a, p) == outs

\* engine: the random numbers are seeded anew in every run, so a run on the
\* inputs and options of the kept run p finds the partition p found; told
\* on the outcomes outs of the wrapper, which hands the partition through
Seeded(outs, a, p) ==
    IF p.out.ret = OK /\ EngineKey(a) = EngineKey(p.args)
    THEN {o \in outs : o.ret = OK =>
                           o.part = p.out.part /\ o.objval = p.out.objval}
    ELSE outs

\* Concurrent calls.  The package documentation has it that the METIS
\* functions are not thread-safe and that concurrent calls must be
\* synchronized by the caller: the engine keeps state that outlives a call
\* and is shared by all calls.  The model takes the state of its random
\* number generator for it, which every run seeds and then draws from.

\* engine: the seed of a run: the seed option, 0 where none is set
seedOf(options) ==
    LET e == EffectiveOptions(OptsPtr(options))[OptionSeed + 1]
    IN IF e < 0 THEN 0 ELSE e

\* engine: the region that greedy growing ends with from the seed vertex s,
\* ties broken towards the higher vertex ids
GrownFrom(g, s) ==
    LET code(R) == SumSeq([u \in 1..g.n |-> IF u \in R THEN 2 ^ u ELSE 0])
    IN CHOOSE R \in Grow(g, {s}) : \A Q \in Grow(g, {s}) : code(Q) <= code(R)

\* engine: the answer of a run that draws the random number r for its seed
\* vertex
RunWith(g, nparts, r) ==
    LET part == IF nparts = 1 THEN [u \in 1..g.n |-> 0]
                ELSE [u \in 1..g.n |->
                         IF u \in GrownFrom(g, (r % g.n) + 1) THEN 0 ELSE 1]
    IN [status |-> OK, objval |-> LevelCut(g, part), part |-> part]

\* a goroutine's call of PartGraphRecursive on the shared graph: at, where it
\* is ("called", "seeded", "returned"); its own options; its own part buffer
\* and return tuple
goroutine(options) == [at |-> "called", options |-> options, out |-> NoOut]

\* engine: the run seeds the generator
seedRandom(w, i) ==
    [w EXCEPT !.rng = seedOf(w.calls[i].options), !.calls[i].at = "seeded"]

\* engine: the run draws its random number and partitions the graph
runEngine(w, i, g, nparts) ==
    LET e == RunWith(g, nparts, w.rng)
    IN [w EXCEPT !.rng = @ + 1, !.calls[i].at = "returned",
                 !.calls[i].out =
                     PartReturn(e.status,
                                Filled(MakeSlice(g.n), e.status, e.part),
                                e.objval)]

\* faulty variant: the neighbour ids come back renumbered from 1
AfterRenumbered(a) ==
    [a EXCEPT !.adjncy = IF @.nil THEN @
                         ELSE Slice([i \in 1..len(@) |-> @.v[i] + 1])]

\* the caller's arrays after a call with the arguments a.  The wrappers take
\* the address of each array and hand it to the engine, and store nothing
\* through it; engine: the graph, the mesh, the weights and the options are
\* read only.  The accessors of Graph read the fields of g.
After(a) == a

Init ==
    /\ pc = "idle" /\ args = NoArgs /\ out = NoOut
    /\ mem = NoArgs /\ prev = NoCall /\ work = NoWork

CallPartGraphRecursive ==
    /\ pc = "idle"
    /\ \E g \in GraphInputs, nparts \in NPartsInputs, options \in OptionInputs :
          /\ args' = [NoArgs EXCEPT !.op = "PartGraphRecursive",
                         !.xadj = g.xadj, !.adjncy = g.adjncy,
                         !.nparts = nparts, !.options = options]
          /\ out' \in PartGraphRecursive(g.xadj, g.adjncy, nparts, options)
    /\ mem' = After(args')
    /\ pc' = "done" /\ UNCHANGED <<prev, work>>

CallPartGraphKway ==
    /\ pc = "idle"
    /\ \E g \in GraphInputs, nparts \in NPartsInputs, options \in OptionInputs :
          /\ args' = [NoArgs EXCEPT !.op = "PartGraphKway",
                         !.xadj = g.xadj, !.adjncy = g.adjncy,
                         !.nparts = nparts, !.options = options]
          /\ out' \in PartGraphKway(g.xadj, g.adjncy, nparts, options)
    /\ mem' = After(args')
    /\ pc' = "done" /\ UNCHANGED <<prev, work>>

CallPartGraphRecursiveWeighted ==
    /\ pc = "idle"
    /\ \E g \in GraphInputs, nparts \in NPartsInputs, options \in OptionInputs,
          ubvec \in UbvecInputs :
         \E vwgt \in VwgtInputs(len(g.xadj) - 1), adjwgt \in AdjwgtInputs(g),
            tpwgts \in TpwgtsInputs(nparts) :
          /\ args' = [NoArgs EXCEPT !.op = "PartGraphRecursiveWeighted",
                         !.xadj = g.xadj, !.adjncy = g.adjncy,
                         !.vwgt = vwgt, !.adjwgt = adjwgt,
                         !.nparts = nparts, !.tpwgts = tpwgts,
                         !.ubvec = ubvec, !.options = options]
          /\ out' \in PartGraphRecursiveWeighted(g.xadj, g.adjncy, vwgt,
                          adjwgt, nparts, tpwgts, ubvec, options)
    /\ mem' = After(args')
    /\ pc' = "done" /\ UNCHANGED <<prev, work>>

CallPartGraphKwayWeighted ==
    /\ pc = "idle"
    /\ \E g \in GraphInputs, nparts \in NPartsInputs, options \in OptionInputs,
          ubvec \in UbvecInputs :
         \E vwgt \in VwgtInputs(len(g.xadj) - 1), adjwgt \in AdjwgtInputs(g),
            tpwgts \in TpwgtsInputs(nparts) :
          /\ args' = [NoArgs EXCEPT !.op = "PartGraphKwayWeighted",
                         !.xadj = g.xadj, !.adjncy = g.adjncy,
                         !.vwgt = vwgt, !.adjwgt = adjwgt,
                         !.nparts = nparts, !.tpwgts = tpwgts,
                         !.ubvec = ubvec, !.options = options]
          /\ out' \in PartGraphKwayWeighted(g.xadj, g.adjncy, vwgt,
                          adjwgt, nparts, tpwgts, ubvec, options)
    /\ mem' = After(args')
    /\ pc' = "done" /\ UNCHANGED <<prev, work>>

CallMeshToDual ==
    /\ pc = "idle"
    /\ \E m \in MeshInputs, ncommon \in NCommonInputs :
          /\ args' = [NoArgs EXCEPT !.op = "MeshToDual",
                         !.ne = m.ne, !.nn = m.nn, !.eptr = m.eptr,
                         !.eind = m.eind, !.ncommon = ncommon]
          /\ out' \in MeshToDual(m.ne, m.nn, m.eptr, m.eind, ncommon)
    /\ mem' = After(args')
    /\ pc' = "done" /\ UNCHANGED <<prev, work>>

CallMeshToNodal ==
    /\ pc = "idle"
    /\ \E m \in MeshInputs :
          /\ args' = [NoArgs EXCEPT !.op = "MeshToNodal",
                         !.ne = m.ne, !.nn = m.nn, !.eptr = m.eptr,
                         !.eind = m.eind]
          /\ out' \in MeshToNodal(m.ne, m.nn, m.eptr, m.eind)
    /\ mem' = After(args')
    /\ pc' = "done" /\ UNCHANGED <<prev, work>>

CallPartMeshNodal ==
    /\ pc = "idle"
    /\ \E m \in MeshInputs, nparts \in MeshNPartsInputs,
          options \in OptionInputs, vwgt \in MeshVwgtInputs :
         \E tpwgts \in TpwgtsInputs(nparts) :
          /\ args' = [NoArgs EXCEPT !.op = "PartMeshNodal",
                         !.ne = m.ne, !.nn = m.nn, !.eptr = m.eptr,
                         !.eind = m.eind, !.vwgt = vwgt, !.nparts = nparts,
                         !.tpwgts = tpwgts, !.options = options]
          /\ out' \in PartMeshNodal(m.ne, m.nn, m.eptr, m.eind, vwgt, Nil,
                                     nparts, tpwgts, options)
    /\ mem' = After(args')
    /\ pc' = "done" /\ UNCHANGED <<prev, work>>

CallPartMeshDual ==
    /\ pc = "idle"
    /\ \E m \in MeshInputs, nparts \in MeshNPartsInputs,
          options \in OptionInputs, vwgt \in MeshVwgtInputs,
          ncommon \in NCommonInputs :
         \E tpwgts \in TpwgtsInputs(nparts) :
          /\ args' = [NoArgs EXCEPT !.op = "PartMeshDual",
                         !.ne = m.ne, !.nn = m.nn, !.eptr = m.eptr,
                         !.eind = m.eind, !.vwgt = vwgt, !.ncommon = ncommon,
                         !.nparts = nparts, !.tpwgts = tpwgts,
                         !.options = options]
          /\ out' \in PartMeshDual(m.ne, m.nn, m.eptr, m.eind, vwgt, Nil,
                                    ncommon, nparts, tpwgts, options)
    /\ mem' = After(args')
    /\ pc' = "done" /\ UNCHANGED <<prev, work>>

CallNodeND ==
    /\ pc = "idle"
    /\ \E g \in GraphInputs, options \in OptionInputs :
         \E vwgt \in VwgtInputs(len(g.xadj) - 1) :
          /\ args' = [NoArgs EXCEPT !.op = "NodeND",
                         !.xadj = g.xadj, !.adjncy = g.adjncy,
                         !.vwgt = vwgt, !.options = options]
          /\ out' \in NodeND(g.xadj, g.adjncy, vwgt, options)
    /\ mem' = After(args')
    /\ pc' = "done" /\ UNCHANGED <<prev, work>>

CallComputeVertexSeparator ==
    /\ pc = "idle"
    /\ \E g \in GraphInputs, options \in OptionInputs :
         \E vwgt \in VwgtInputs(len(g.xadj) - 1) :
          /\ args' = [NoArgs EXCEPT !.op = "ComputeVertexSeparator",
                         !.xadj = g.xadj, !.adjncy = g.adjncy,
                         !.vwgt = vwgt, !.options = options]
          /\ out' \in ComputeVertexSeparator(g.xadj, g.adjncy, vwgt, options)
    /\ mem' = After(args')
    /\ pc' = "done" /\ UNCHANGED <<prev, work>>

CallNewGraph ==
    /\ pc = "idle"
    /\ \E g \in GraphInputs \cup MalformedGraphs :
          /\ args' = [NoArgs EXCEPT !.op = "NewGraph",
                         !.xadj = g.xadj, !.adjncy = g.adjncy]
          /\ out' = [NoOut EXCEPT !.outcome = "returned",
                        !.graph = Ref(NewGraph(g.xadj, g.adjncy))]
    /\ mem' = After(args')
    /\ pc' = "done" /\ UNCHANGED <<prev, work>>

CallConvertMeshToGraph ==
    /\ pc = "idle"
    /\ \E m \in MeshInputs, dual \in BOOLEAN, ncommon \in NCommonInputs :
          /\ args' = [NoArgs EXCEPT !.op = "ConvertMeshToGraph",
                         !.ne = m.ne, !.nn = m.nn, !.eptr = m.eptr,
                         !.eind = m.eind, !.dual = dual, !.ncommon = ncommon]
          /\ out' \in ConvertMeshToGraph(m.ne, m.nn, m.eptr, m.eind, dual,
                                         ncommon)
    /\ mem' = After(args')
    /\ pc' = "done" /\ UNCHANGED <<prev, work>>

CallReadGraphFile ==
    /\ pc = "idle"
    /\ \E f \in TextInputs :
          /\ args' = [NoArgs EXCEPT !.op = "ReadGraphFile", !.text = f.text,
                         !.written = f.written,
                         !.xadj = f.xadj, !.adjncy = f.adjncy,
                         !.vwgt = f.vwgt, !.adjwgt = f.adjwgt]
          /\ out' = ReadGraphFile(f.text)
    /\ mem' = After(args')
    /\ pc' = "done" /\ UNCHANGED <<prev, work>>

CallNumVertices ==
    /\ pc = "idle"
    /\ \E g \in GraphInputs \cup MalformedGraphs :
          /\ args' = [NoArgs EXCEPT !.op = "NumVertices",
                         !.g = Ref(NewGraph(g.xadj, g.adjncy))]
          /\ out' = Value(NumVertices(NewGraph(g.xadj, g.adjncy)))
    /\ mem' = After(args')
    /\ pc' = "done" /\ UNCHANGED <<prev, work>>

CallNumEdges ==
    /\ pc = "idle"
    /\ \E g \in GraphInputs \cup MalformedGraphs :
          /\ args' = [NoArgs EXCEPT !.op = "NumEdges",
                         !.g = Ref(NewGraph(g.xadj, g.adjncy))]
          /\ out' = Value(NumEdges(NewGraph(g.xadj, g.adjncy)))
    /\ mem' = After(args')
    /\ pc' = "done" /\ UNCHANGED <<prev, work>>

CallDegree ==
    /\ pc = "idle"
    /\ \E g \in GraphInputs \cup MalformedGraphs, v \in VertexInputs :
          /\ args' = [NoArgs EXCEPT !.op = "Degree", !.v = v,
                         !.g = Ref(NewGraph(g.xadj, g.adjncy))]
          /\ out' = Degree(NewGraph(g.xadj, g.adjncy), v)
    /\ mem' = After(args')
    /\ pc' = "done" /\ UNCHANGED <<prev, work>>

CallNeighbors ==
    /\ pc = "idle"
    /\ \E g \in GraphInputs \cup MalformedGraphs, v \in VertexInputs :
          /\ args' = [NoArgs EXCEPT !.op = "Neighbors", !.v = v,
                         !.g = Ref(NewGraph(g.xadj, g.adjncy))]
          /\ out' = Neighbors(NewGraph(g.xadj, g.adjncy), v)
    /\ mem' = After(args')
    /\ pc' = "done" /\ UNCHANGED <<prev, work>>

RepeatPartGraphRecursive ==
    /\ pc = "idle"
    /\ \E g \in RepeatGraphs, nparts \in RepeatNPartsInputs, options \in RepeatOptionInputs :
          /\ args' = [NoArgs EXCEPT !.op = "PartGraphRecursive",
                         !.xadj = g.xadj, !.adjncy = g.adjncy,
                         !.nparts = nparts, !.options = options]
          /\ out' \in Seeded(PartGraphRecursive(g.xadj, g.adjncy, nparts,
                                                 options), args', prev)
    /\ mem' = After(args')
    /\ pc' = "done" /\ UNCHANGED <<prev, work>>

RepeatPartGraphKway ==
    /\ pc = "idle"
    /\ \E g \in RepeatGraphs, nparts \in RepeatNPartsInputs, options \in RepeatOptionInputs :
          /\ args' = [NoArgs EXCEPT !.op = "PartGraphKway",
                         !.xadj = g.xadj, !.adjncy = g.adjncy,
                         !.nparts = nparts, !.options = options]
          /\ out' \in Seeded(PartGraphKway(g.xadj, g.adjncy, nparts,
                                            options), args', prev)
    /\ mem' = After(args')
    /\ pc' = "done" /\ UNCHANGED <<prev, work>>

\* the caller keeps the call that has ended, to compare a later one with it
KeepCall ==
    /\ pc = "done"
    /\ prev' = [args |-> args, out |-> out]
    /\ pc' = "idle" /\ args' = NoArgs /\ out' = NoOut /\ mem' = NoArgs
    /\ UNCHANGED work

CallCalculateEdgeCut ==
    /\ pc = "idle"
    /\ \E g \in FileGraphs :
          \E adjwgt \in CutAdjwgtInputs(g), part \in PartInputs(len(g.xadj) - 1, 2) :
             /\ args' = [NoArgs EXCEPT !.op = "CalculateEdgeCut",
                            !.xadj = g.xadj, !.adjncy = g.adjncy,
                            !.adjwgt = adjwgt, !.part = part,
                            !.g = Ref([NewGraph(g.xadj, g.adjncy)
                                          EXCEPT !.Adjwgt = adjwgt])]
             /\ out' = Value(CalculateEdgeCut([NewGraph(g.xadj, g.adjncy)
                                                  EXCEPT !.Adjwgt = adjwgt],
                                              part))
    /\ mem' = After(args')
    /\ pc' = "done" /\ UNCHANGED <<prev, work>>

CallCalculatePartitionBalance ==
    /\ pc = "idle"
    /\ \E n \in 0..MaxN, nparts \in BalanceNPartsInputs :
          \E part \in PartInputs(n, 2), vwgt \in VwgtInputs(n) :
             /\ args' = [NoArgs EXCEPT !.op = "CalculatePartitionBalance",
                            !.part = part, !.vwgt = vwgt, !.nparts = nparts]
             /\ out' = CalculatePartitionBalance(part, vwgt, nparts)
    /\ mem' = After(args')
    /\ pc' = "done" /\ UNCHANGED <<prev, work>>

CallSetDefaultOptions ==
    /\ pc = "idle"
    /\ \E opts \in SetDefaultOptionInputs :
          \E r \in SetDefaultOptions(opts) :
             /\ args' = [NoArgs EXCEPT !.op = "SetDefaultOptions",
                            !.options = opts]
             /\ out' = r.out
             /\ mem' = [args' EXCEPT !.options = r.opts]
    /\ pc' = "done" /\ UNCHANGED <<prev, work>>

\* MeshToDual, up to the return of the engine
BeginMeshToDual ==
    /\ pc = "idle"
    /\ \E m \in MeshInputs, ncommon \in NCommonInputs :
          /\ args' = [NoArgs EXCEPT !.op = "MeshToDual",
                         !.ne = m.ne, !.nn = m.nn, !.eptr = m.eptr,
                         !.eind = m.eind, !.ncommon = ncommon]
          /\ IF ~Indexable(m.eptr) \/ ~Indexable(m.eind)
             THEN pc' = "done" /\ out' = Panic /\ work' = NoWork
             ELSE \E e \in METIS_MeshToDual(m.ne, m.nn, m.eptr, m.eind,
                                            ncommon, 0) :
                    /\ pc' = "running" /\ out' = NoOut
                    /\ work' = conversion(m.ne, e)
    /\ mem' = After(args') /\ UNCHANGED prev

\* MeshToNodal, up to the return of the engine
BeginMeshToNodal ==
    /\ pc = "idle"
    /\ \E m \in MeshInputs :
          /\ args' = [NoArgs EXCEPT !.op = "MeshToNodal",
                         !.ne = m.ne, !.nn = m.nn, !.eptr = m.eptr,
                         !.eind = m.eind]
          /\ IF ~Indexable(m.eptr) \/ ~Indexable(m.eind)
             THEN pc' = "done" /\ out' = Panic /\ work' = NoWork
             ELSE \E e \in METIS_MeshToNodal(m.ne, m.nn, m.eptr, m.eind, 0) :
                    /\ pc' = "running" /\ out' = NoOut
                    /\ work' = conversion(m.nn, e)
    /\ mem' = After(args') /\ UNCHANGED prev

\* the statements of the two wrappers after the engine call, one at a time
CheckRet ==
    /\ pc = "running" /\ work.step = "check"
    /\ work' = checkRet(work)
    /\ UNCHANGED <<pc, args, out, mem, prev>>

CopyXadj ==
    /\ pc = "running" /\ work.step = "copyXadj"
    /\ work' \in copyXadj(work)
    /\ UNCHANGED <<pc, args, out, mem, prev>>

CopyAdjncy ==
    /\ pc = "running" /\ work.step = "copyAdjncy"
    /\ work' \in copyAdjncy(work)
    /\ UNCHANGED <<pc, args, out, mem, prev>>

\* C.METIS_Free(unsafe.Pointer(xadj))
FreeXadj ==
    /\ pc = "running" /\ work.step = "freeXadj"
    /\ work' = [work EXCEPT !.xadj = METIS_Free(@), !.step = "freeAdjncy"]
    /\ UNCHANGED <<pc, args, out, mem, prev>>

\* C.METIS_Free(unsafe.Pointer(adjncy))
FreeAdjncy ==
    /\ pc = "running" /\ work.step = "freeAdjncy"
    /\ work' = [work EXCEPT !.adjncy = METIS_Free(@), !.step = "return"]
    /\ UNCHANGED <<pc, args, out, mem, prev>>

\* either return statement, or the panic of make
ReturnConversion ==
    /\ pc = "running" /\ work.step \in {"return", "panic"}
    /\ IF work.step = "panic"
       THEN out' = Panic /\ work' = [work EXCEPT !.step = "returned"]
       ELSE IF work.ret # OK
       THEN /\ out' = [NoOut EXCEPT !.outcome = "returned", !.ret = work.ret,
                                    !.err = getError(work.ret)]
            /\ work' = [work EXCEPT !.step = "returned"]
       ELSE /\ work' = returnSlices(work)
            /\ out' = [NoOut EXCEPT !.outcome = "returned", !.ret = work.ret,
                          !.xadj = IF "xadj" \in work'.returned
                                   THEN Slice(work.xadj.data)
                                   ELSE work.xadjSlice,
                          !.adjncy = IF "adjncy" \in work'.returned
                                     THEN Slice(work.adjncy.data)
                                     ELSE work.adjncySlice]
    /\ pc' = "done" /\ UNCHANGED <<args, mem, prev>>

\* PartGraphRecursive, up to the start of the engine's multilevel scheme
BeginPartGraphRecursive ==
    /\ pc = "idle"
    /\ \E g \in GraphInputs, nparts \in 0..2, options \in {Nil, DefaultOptions} :
          /\ args' = [NoArgs EXCEPT !.op = "PartGraphRecursive",
                         !.xadj = g.xadj, !.adjncy = g.adjncy,
                         !.nparts = nparts, !.options = options]
          /\ LET nvtxs == len(g.xadj) - 1
             IN IF nvtxs < 0 \/ ~Indexable(g.xadj) \/ ~Indexable(g.adjncy)
                      \/ nvtxs = 0
                THEN pc' = "done" /\ out' = Panic /\ work' = NoWork
                ELSE IF nparts < 1
                THEN /\ pc' = "done" /\ work' = NoWork
                     /\ out' = PartReturn(ErrorInput, MakeSlice(nvtxs), 0)
                ELSE /\ pc' = "running" /\ out' = NoOut
                     /\ work' = partitioning(
                            FinestLevel(nvtxs, g.xadj, g.adjncy, Nil, Nil),
                            nparts)
    /\ mem' = After(args') /\ UNCHANGED prev

\* engine: one more level, while the coarsest has more vertices than there
\* are parts and some of its vertices can be matched
Coarsen ==
    /\ pc = "running" /\ work.step = "coarsen"
    /\ LET g == work.levels[Len(work.levels)]
       IN /\ g.n > work.nparts
          /\ \E m \in Matchings(g) :
                /\ \E u \in 1..g.n : m[u] # u
                /\ work' = [work EXCEPT
                       !.levels = Append(@, Contract(g, CoarseMap(g, m))),
                       !.cmaps = Append(@, CoarseMap(g, m))]
    /\ UNCHANGED <<pc, args, out, mem, prev>>

\* engine: the coarsest level is small enough and is partitioned
InitialPartition ==
    /\ pc = "running" /\ work.step = "coarsen"
    /\ \E part \in InitialPartitions(work.levels[Len(work.levels)],
                                      work.nparts) :
          work' = [work EXCEPT !.step = "uncoarsen", !.part = part,
                               !.lev = Len(work.levels)]
    /\ UNCHANGED <<pc, args, out, mem, prev>>

\* engine: one move of the refinement at the current level
Refine ==
    /\ pc = "running" /\ work.step = "uncoarsen"
    /\ \E part \in RefineMoves(work.levels[work.lev], work.nparts, work.part) :
          work' = [work EXCEPT !.part = part, !.cpart = <<>>]
    /\ UNCHANGED <<pc, args, out, mem, prev>>

\* engine: the partition is projected to the next finer level
ProjectDown ==
    /\ pc = "running" /\ work.step = "uncoarsen" /\ work.lev > 1
    /\ work' = [work EXCEPT !.lev = @ - 1, !.cpart = work.part,
                            !.part = Project(work.cmaps[work.lev - 1],
                                             work.part)]
    /\ UNCHANGED <<pc, args, out, mem, prev>>

\* the engine returns the partition of level 0 and its cut, and the wrapper
\* returns them
FinishPartition ==
    /\ pc = "running" /\ work.step = "uncoarsen" /\ work.lev = 1
    /\ out' = PartReturn(OK,
                  Filled(MakeSlice(work.levels[1].n), OK, work.part),
                  LevelCut(work.levels[1], work.part))
    /\ work' = [work EXCEPT !.step = "returned", !.cpart = <<>>]
    /\ pc' = "done" /\ UNCHANGED <<args, mem, prev>>

\* two goroutines call PartGraphRecursive on the same graph, each with its
\* own options, and no lock is held; the graph has an edge, so that neither
\* wrapper panics
BeginConcurrent ==
    /\ pc = "idle"
    /\ \E g \in {h \in RepeatGraphs : Indexable(h.adjncy)},
          nparts \in RepeatNPartsInputs, o1, o2 \in RepeatOptionInputs :
          /\ args' = [NoArgs EXCEPT !.op = "PartGraphRecursive",
                         !.xadj = g.xadj, !.adjncy = g.adjncy,
                         !.nparts = nparts]
          /\ work' = [step |-> "concurrent", rng |-> 0,
                      calls |-> <<goroutine(o1), goroutine(o2)>>]
    /\ pc' = "running" /\ out' = NoOut
    /\ mem' = After(args') /\ UNCHANGED prev

\* a step of the engine in one of the two calls
SeedRandom ==
    /\ pc = "running" /\ work.step = "concurrent"
    /\ \E i \in 1..2 :
          /\ work.calls[i].at = "called"
          /\ work' = seedRandom(work, i)
    /\ UNCHANGED <<pc, args, out, mem, prev>>

RunEngine ==
    /\ pc = "running" /\ work.step = "concurrent"
    /\ \E i \in 1..2 :
          /\ work.calls[i].at = "seeded"
          /\ work' = runEngine(work, i,
                         FinestLevel(len(args.xadj) - 1, args.xadj,
                                     args.adjncy, Nil, Nil),
                         args.nparts)
    /\ UNCHANGED <<pc, args, out, mem, prev>>

\* both calls have returned
JoinConcurrent ==
    /\ pc = "running" /\ work.step = "concurrent"
    /\ \A i \in 1..2 : work.calls[i].at = "returned"
    /\ pc' = "done" /\ out' = work.calls[1].out
    /\ UNCHANGED <<args, mem, prev, work>>

\* the caller is done with the result and turns to its next call
NextCall ==
    /\ pc = "done"
    /\ pc' = "idle" /\ args' = NoArgs /\ out' = NoOut /\ mem' = NoArgs
    /\ work' = NoWork /\ UNCHANGED prev

NextPart ==
    \/ CallPartGraphRecursive
    \/ CallPartGraphKway
    \/ CallPartGraphRecursiveWeighted
    \/ CallPartGraphKwayWeighted
    \/ NextCall

\* the graph partitioning calls alone
SpecPart == Init /\ [][NextPart]_vars

NextND == CallNodeND \/ NextCall

\* the ordering calls alone
SpecND == Init /\ [][NextND]_vars

NextSep == CallComputeVertexSeparator \/ NextCall

\* the separator calls alone
SpecSep == Init /\ [][NextSep]_vars

NextMesh ==
    \/ CallMeshToDual
    \/ CallMeshToNodal
    \/ CallPartMeshNodal
    \/ CallPartMeshDual
    \/ NextCall

\* the mesh calls alone
SpecMesh == Init /\ [][NextMesh]_vars

NextGraph ==
    \/ CallNewGraph
    \/ CallConvertMeshToGraph
    \/ CallReadGraphFile
    \/ CallNumVertices
    \/ CallNumEdges
    \/ CallDegree
    \/ CallNeighbors
    \/ NextCall

\* the Graph type: its constructors, its reader and its accessors
SpecGraph == Init /\ [][NextGraph]_vars

NextRepeat ==
    \/ RepeatPartGraphRecursive
    \/ RepeatPartGraphKway
    \/ KeepCall
    \/ NextCall

\* graph partitioning calls by a caller who keeps one call and repeats it,
\* straight away or after other calls
SpecRepeat == Init /\ [][NextRepeat]_vars

NextCalc ==
    \/ CallCalculateEdgeCut
    \/ CallCalculatePartitionBalance
    \/ NextCall

\* the two statistics of a partitioning
SpecCalc == Init /\ [][NextCalc]_vars

Next ==
    \/ CallPartGraphRecursive
    \/ CallPartGraphKway
    \/ CallPartGraphRecursiveWeighted
    \/ CallPartGraphKwayWeighted
    \/ CallMeshToDual
    \/ CallMeshToNodal
    \/ CallPartMeshNodal
    \/ CallPartMeshDual
    \/ CallNodeND
    \/ CallComputeVertexSeparator
    \/ NextCall

\* every public operation
Spec == Init /\ [][Next]_vars

NextOpts ==
    \/ CallSetDefaultOptions
    \/ CallPartGraphRecursive
    \/ CallPartGraphKway
    \/ CallPartMeshNodal
    \/ CallPartMeshDual
    \/ CallNodeND
    \/ CallComputeVertexSeparator
    \/ NextCall

\* SetDefaultOptions, and an operation of each kind that takes an options
\* array: graph partitioning, mesh partitioning, ordering, separator
SpecOpts == Init /\ [][NextOpts]_vars

NextConv ==
    \/ BeginMeshToDual
    \/ BeginMeshToNodal
    \/ CheckRet
    \/ CopyXadj
    \/ CopyAdjncy
    \/ FreeXadj
    \/ FreeAdjncy
    \/ ReturnConversion
    \/ NextCall

\* the two mesh conversions, statement by statement
SpecConv == Init /\ [][NextConv]_vars

NextLevels ==
    \/ BeginPartGraphRecursive
    \/ Coarsen
    \/ InitialPartition
    \/ Refine
    \/ ProjectDown
    \/ FinishPartition
    \/ NextCall

\* PartGraphRecursive with the engine's multilevel scheme, level by level
SpecLevels == Init /\ [][NextLevels]_vars

NextConc ==
    \/ BeginConcurrent
    \/ SeedRandom
    \/ RunEngine
    \/ JoinConcurrent
    \/ NextCall

\* two calls of PartGraphRecursive at once on one graph
SpecConc == Init /\ [][NextConc]_vars

NextAll ==
    \/ CallPartGraphRecursive
    \/ CallPartGraphKway
    \/ CallPartGraphRecursiveWeighted
    \/ CallPartGraphKwayWeighted
    \/ CallMeshToDual
    \/ CallMeshToNodal
    \/ CallPartMeshNodal
    \/ CallPartMeshDual
    \/ CallNodeND
    \/ CallComputeVertexSeparator
    \/ CallNumVertices
    \/ CallNumEdges
    \/ CallDegree
    \/ CallNeighbors
    \/ NextCall

\* the operations that take the caller's arrays, and the accessors of Graph
SpecAll == Init /\ [][NextAll]_vars

-----------------------------------------------------------------------------
(* The properties.                                                         *)

\* the last call returned without an error
Succeeded == pc = "done" /\ out.outcome = "returned" /\ out.err = NoError

GraphPartOps ==
    {"PartGraphRecursive", "PartGraphKway",
     "PartGraphRecursiveWeighted", "PartGraphKwayWeighted"}

MeshPartOps == {"PartMeshNodal", "PartMeshDual"}

\* every entry of the vector s is a part id of [0, k)
InRange(s, k) == \A i \in 1..len(s) : s.v[i] \in 0..(k - 1)

\* the number of vertices of the graph of the last call
nvtxsOf == len(args.xadj) - 1

\* C1: a partition vector returned by a successful partitioning call has one
\* entry per vertex (graph calls: len(xadj)-1 entries; mesh calls: epart has
\* ne and npart has nn entries) and every entry is a part id in [0, nparts).
PartitionVectorValid ==
    Succeeded =>
        /\ args.op \in GraphPartOps =>
              /\ ~out.part.nil
              /\ len(out.part) = nvtxsOf
              /\ InRange(out.part, args.nparts)
        /\ args.op \in MeshPartOps =>
              /\ ~out.epart.nil /\ ~out.npart.nil
              /\ len(out.epart) = args.ne
              /\ len(out.npart) = args.nn
              /\ InRange(out.epart, args.nparts)
              /\ InRange(out.npart, args.nparts)

\* a mesh of 2 elements and 4 nodes split in 2 through its dual graph
PartitionVectorValidSeen ==
    /\ Succeeded /\ args.op = "PartMeshDual"
    /\ args.ne = 2 /\ args.nn = 4 /\ args.nparts = 2
    /\ out.epart.v = <<0, 1>> /\ out.npart.v = <<0, 0, 1, 1>>

\* C2: on a graph of n >= 2*nparts vertices a successful graph partitioning
\* (recursive or k-way, weighted or not) uses every part id of [0, nparts),
\* so the largest id in the vector is nparts-1.
AllPartsNonEmpty ==
    (Succeeded /\ args.op \in GraphPartOps /\ nvtxsOf >= 2 * args.nparts) =>
        /\ \A p \in 0..(args.nparts - 1) :
              \E i \in 1..len(out.part) : out.part.v[i] = p
        /\ maxPart(out.part) = args.nparts - 1

\* four vertices split two and two by the k-way call
AllPartsNonEmptySeen ==
    /\ Succeeded /\ args.op = "PartGraphKway"
    /\ nvtxsOf = 4 /\ args.nparts = 2
    /\ out.part.v = <<0, 0, 1, 1>>

\* C3: the objective value of a successful graph partitioning is the edge
\* cut recomputed from the returned partition: the weights (1 without
\* adjwgt) of the edges whose ends lie in different parts, every undirected
\* edge once; the sum over all CSR entries is twice the objective value.
ObjectiveIsEdgeCut ==
    (Succeeded /\ args.op \in GraphPartOps) =>
        /\ cut(nvtxsOf, args.xadj, args.adjncy,
               localAdjwgt(args.adjwgt, args.adjncy), out.part)
              = 2 * out.objval
        /\ CalculateEdgeCut([NewGraph(args.xadj, args.adjncy)
                                EXCEPT !.Adjwgt = args.adjwgt], out.part)
              = out.objval

\* a weighted cut of more than one edge
ObjectiveIsEdgeCutSeen ==
    /\ Succeeded /\ args.op = "PartGraphRecursiveWeighted"
    /\ ~args.adjwgt.nil /\ args.nparts = 2
    /\ out.objval >= 4

\* the graph partitioning of the last call had uniform target fractions
UniformCall == Succeeded /\ args.op \in GraphPartOps /\ args.tpwgts.nil

\* some assignment of the vertices to the parts, using every part when
\* n >= 2*nparts, keeps every part within 1.10 times its target weight
CanBalance(nvtxs, vwgt, nparts, tpwgts) ==
    \E part \in [1..nvtxs -> 0..(nparts - 1)] :
        /\ AllPartsUsed(nvtxs, nparts, part)
        /\ Balanced(nvtxs, vwgt, nparts, tpwgts, Nil, part)

\* the inputs, of those the callers draw, for which that is so
BalanceableKeys ==
    {k : k \in {x \in PartitionKeys :
                    x[5] = Nil /\ CanBalance(x[1], x[2], x[3], x[4])}}

\* the last call was one of them
Attainable ==
    <<nvtxsOf, args.vwgt, args.nparts, args.tpwgts, Nil>> \in BalanceableKeys

TargetedCall ==
    /\ Succeeded
    /\ args.op \in {"PartGraphRecursiveWeighted", "PartGraphKwayWeighted"}
    /\ ~args.tpwgts.nil

OrderingInvertible ==
    (Succeeded /\ args.op = "NodeND") =>
        /\ len(out.perm) = nvtxsOf /\ len(out.iperm) = nvtxsOf
        /\ InRange(out.perm, nvtxsOf) /\ InRange(out.iperm, nvtxsOf)
        /\ verifyND(nvtxsOf, out.perm, out.iperm) = 0
        /\ \A i \in 0..(nvtxsOf - 1) :
              /\ out.perm.v[out.iperm.v[i + 1] + 1] = i
              /\ out.iperm.v[out.perm.v[i + 1] + 1] = i

\* a weighted graph of four vertices ordered by a 4-cycle, which is not
\* its own inverse
OrderingInvertibleSeen ==
    /\ Succeeded /\ args.op = "NodeND"
    /\ nvtxsOf = 4 /\ ~args.vwgt.nil /\ len(args.vwgt) = 4
    /\ out.perm.v = <<1, 2, 3, 0>> /\ out.iperm.v = <<3, 0, 1, 2>>

\* the last call was a successful ComputeVertexSeparator
Separated == Succeeded /\ args.op = "ComputeVertexSeparator"

ResultArrays(op) ==
    CASE op \in GraphPartOps \cup {"ComputeVertexSeparator"} -> {out.part}
      [] op \in MeshPartOps -> {out.epart, out.npart}
      [] op \in {"MeshToDual", "MeshToNodal"} -> {out.xadj, out.adjncy}
      [] op = "NodeND" -> {out.perm, out.iperm}
      [] OTHER -> {}

\* C9: no partial success.  A call that returns an error returns nil for
\* every array and 0 for the objective value and the separator size; a call
\* that returns no error had the engine answer OK and returns non-nil
\* arrays.  For the partition, mesh conversion, ordering and separator
\* operations alike.
NoPartialSuccess ==
    (pc = "done" /\ out.outcome = "returned") =>
        /\ out.err # NoError =>
              /\ \A f \in {out.part, out.epart, out.npart, out.xadj,
                            out.adjncy, out.perm, out.iperm} : f.nil
              /\ out.objval = 0 /\ out.sepsize = 0
        /\ out.err = NoError =>
              /\ out.ret = OK
              /\ \A f \in ResultArrays(args.op) : ~f.nil

\* the engine ran out of memory in a mesh partitioning
NoPartialSuccessSeen ==
    /\ pc = "done" /\ out.outcome = "returned"
    /\ args.op = "PartMeshNodal" /\ args.ne = 2
    /\ out.ret = ErrorMemory
    /\ out.err = "METIS error: insufficient memory"

\* C10: every operation ends by returning a result or an error, whatever
\* the input: a graph without edges, a graph without vertices, an empty
\* xadj, eptr or eind included.  No call aborts.
AlwaysReturns == pc = "done" => out.outcome = "returned"

\* the last call was handed a weight array of the wrong length
WeightsMismatched ==
    \/ ~args.vwgt.nil /\ len(args.vwgt) # nvtxsOf
    \/ ~args.adjwgt.nil /\ len(args.adjwgt) # len(args.adjncy)

\* C11: a graph operation that takes weights (the two weighted partitioning
\* calls, NodeND, ComputeVertexSeparator) returns an error and no result when
\* vwgt has not n entries or adjwgt has not len(adjncy) entries, and does not
\* run the engine on such input.
WeightLengthsChecked ==
    (/\ pc = "done"
     /\ args.op \in {"PartGraphRecursiveWeighted", "PartGraphKwayWeighted",
                      "NodeND", "ComputeVertexSeparator"}
     /\ WeightsMismatched) =>
        /\ out.outcome = "returned"
        /\ out.err # NoError
        /\ out.ret = "not called"
        /\ out.part.nil /\ out.perm.nil /\ out.iperm.nil
        /\ out.objval = 0 /\ out.sepsize = 0

\* the neighbours the returned CSR arrays list for vertex i
OutNeighbors(i) ==
    IF i + 2 > len(out.xadj) THEN {}
    ELSE {out.adjncy.v[k] :
            k \in {j \in (out.xadj.v[i + 1] + 1)..out.xadj.v[i + 2] :
                      j \in 1..len(out.adjncy)}}

\* the node ids listed for element e in the mesh of the last call
NodesOf(e) ==
    {args.eind.v[k] : k \in (args.eptr.v[e + 1] + 1)..args.eptr.v[e + 2]}

\* C13: in the graph a successful MeshToDual returns, two distinct elements
\* are adjacent exactly when they share at least ncommon nodes, no element is
\* adjacent to itself, and adjacency is symmetric.
DualAdjacency ==
    (Succeeded /\ args.op = "MeshToDual") =>
        \A e, f \in 0..(args.ne - 1) :
            /\ f \in OutNeighbors(e) <=>
                  /\ e # f
                  /\ Cardinality(NodesOf(e) \cap NodesOf(f)) >= args.ncommon
            /\ f \in OutNeighbors(e) <=> e \in OutNeighbors(f)

\* a dual graph came back in which one pair of elements is adjacent, with
\* more than one shared node asked for
DualAdjacencySeen ==
    /\ Succeeded /\ args.op = "MeshToDual"
    /\ args.ncommon >= 2
    /\ \E e, f \in 0..(args.ne - 1) : e # f /\ f \in OutNeighbors(e)

\* C14: in the graph a successful MeshToNodal returns, two distinct nodes are
\* adjacent exactly when some element contains both, and adjacency is
\* symmetric.
NodalAdjacency ==
    (Succeeded /\ args.op = "MeshToNodal") =>
        \A u, v \in 0..(args.nn - 1) :
            /\ v \in OutNeighbors(u) <=>
                  /\ u # v
                  /\ \E e \in 0..(args.ne - 1) : {u, v} \subseteq NodesOf(e)
            /\ v \in OutNeighbors(u) <=> u \in OutNeighbors(v)

\* a nodal graph came back with adjacent nodes and with a pair of nodes that
\* no element holds together
NodalAdjacencySeen ==
    /\ Succeeded /\ args.op = "MeshToNodal"
    /\ \E u, v \in 0..(args.nn - 1) : u # v /\ v \in OutNeighbors(u)
    /\ \E u, v \in 0..(args.nn - 1) : u # v /\ v \notin OutNeighbors(u)

\* the number of vertices of the graph a mesh conversion builds
ConvertedSize == IF args.op = "MeshToDual" THEN args.ne ELSE args.nn

\* C15: the arrays a successful mesh conversion returns are well formed: xadj
\* has ne+1 (MeshToDual) or nn+1 (MeshToNodal) entries, starts at 0 and never
\* decreases, adjncy has xadj's last entry many entries, and each of them is
\* a vertex id of the graph.
ConvertedCSR ==
    (Succeeded /\ args.op \in {"MeshToDual", "MeshToNodal"}) =>
        /\ ~out.xadj.nil /\ ~out.adjncy.nil
        /\ len(out.xadj) = ConvertedSize + 1
        /\ out.xadj.v[1] = 0
        /\ \A i \in 1..ConvertedSize : out.xadj.v[i] <= out.xadj.v[i + 1]
        /\ len(out.adjncy) = out.xadj.v[ConvertedSize + 1]
        /\ InRange(out.adjncy, ConvertedSize)

\* a conversion came back with a graph that has vertices and edges
ConvertedCSRSeen ==
    /\ Succeeded /\ args.op \in {"MeshToDual", "MeshToNodal"}
    /\ ConvertedSize >= 2
    /\ len(out.adjncy) >= 2

\* the CSR invariants of a Graph with n vertices
WellFormed(g, n) ==
    /\ len(g.Xadj) = n + 1
    /\ g.Xadj.v[1] = 0
    /\ \A i \in 1..n : g.Xadj.v[i] <= g.Xadj.v[i + 1]
    /\ g.Xadj.v[n + 1] = len(g.Adjncy)

\* the vertex count the header of the text of the last call announces
HeaderCount == Atoi(Fields(ScanLines(args.text)[1])[1]).val

\* C16: a Graph that ReadGraphFile returns without error satisfies the CSR
\* invariants, whatever the accepted text, blank vertex lines included: Xadj
\* has nvtxs+1 entries, starts at 0, never decreases, and ends at len(Adjncy).
ReadGraphWellFormed ==
    (Succeeded /\ args.op = "ReadGraphFile") =>
        /\ ~out.graph.null
        /\ WellFormed(out.graph, HeaderCount)

\* vertex i's adjacency list in the Graph g, or none when Xadj does not
\* delimit one
AdjacencyList(g, i) ==
    IF i + 2 <= len(g.Xadj) /\ 0 <= g.Xadj.v[i + 1]
          /\ g.Xadj.v[i + 1] <= g.Xadj.v[i + 2]
          /\ g.Xadj.v[i + 2] <= len(g.Adjncy)
    THEN SubSeq(g.Adjncy.v, g.Xadj.v[i + 1] + 1, g.Xadj.v[i + 2])
    ELSE <<"none">>

\* the weights are read when, and only when, the file was written with them
FlagsRead ==
    /\ out.graph.Vwgt.nil <=> args.vwgt.nil
    /\ out.graph.Adjwgt.nil <=> args.adjwgt.nil

\* C17: ReadGraphFile parses the persisted format: of a graph written with
\* fmt's tens digit 1 for vertex weights and units digit 1 for edge weights,
\* the vertex weight first on each line, then the neighbours numbered from 1,
\* each followed by its edge weight, the weights are read as flagged and
\* every neighbour k of vertex i is stored as k-1, in file order, in vertex
\* i's adjacency list.
ReadGraphParsed ==
    (Succeeded /\ args.op = "ReadGraphFile" /\ args.written) =>
        /\ FlagsRead
        /\ \A i \in 0..(len(args.xadj) - 2) :
              AdjacencyList(out.graph, i)
                 = SubSeq(args.adjncy.v, args.xadj.v[i + 1] + 1,
                          args.xadj.v[i + 2])

\* the same for files in which every vertex has a neighbour, and for any
\* file when Adjncy is taken as one list: the neighbours of all lines in
\* file order
ReadGraphParsedFlat ==
    (Succeeded /\ args.op = "ReadGraphFile" /\ args.written) =>
        /\ FlagsRead
        /\ out.graph.Adjncy = args.adjncy
        /\ (\A i \in 1..(len(args.xadj) - 1) :
                args.xadj.v[i] < args.xadj.v[i + 1])
              => \A i \in 0..(len(args.xadj) - 2) :
                    AdjacencyList(out.graph, i)
                       = SubSeq(args.adjncy.v, args.xadj.v[i + 1] + 1,
                                args.xadj.v[i + 2])

\* the offsets of the arrays of the last call are malformed: none at all, a
\* first one other than 0, a decreasing one, a last one other than
\* len(adjncy)
Malformed(xadj, adjncy) ==
    \/ len(xadj) = 0
    \/ xadj.v[1] # 0
    \/ \E i \in 1..(len(xadj) - 1) : xadj.v[i] > xadj.v[i + 1]
    \/ xadj.v[len(xadj)] # len(adjncy)

\* C18: constructing a Graph from (xadj, adjncy) fails with an error when
\* xadj is malformed, and no Graph with a malformed Xadj comes out of a
\* construction.
MalformedRejected ==
    /\ (pc = "done" /\ args.op = "NewGraph"
           /\ Malformed(args.xadj, args.adjncy)) =>
          out.err # NoError /\ out.graph.null
    /\ (Succeeded /\ args.op \in {"NewGraph", "ConvertMeshToGraph"}) =>
          ~Malformed(out.graph.Xadj, out.graph.Adjncy)

\* the kept call returned without an error
KeptSucceeded == prev.out.outcome = "returned" /\ prev.out.err = NoError

\* the graph of the last call is well formed and can be cut into nparts parts
ValidRequest ==
    /\ ~Malformed(args.xadj, args.adjncy)
    /\ InRange(args.adjncy, nvtxsOf)
    /\ args.nparts \in 1..nvtxsOf

\* a call with nil options and the kept call with a freshly defaulted
\* options array, otherwise the same, found the same partition
NilOptionsSameAsDefaults ==
    (/\ Succeeded /\ KeptSucceeded
     /\ args.options.nil
     /\ prev.args = [args EXCEPT !.options = DefaultOptions]) =>
        out.part = prev.out.part /\ out.objval = prev.out.objval

\* C12: a partitioning call with nil options succeeds on every valid graph
\* (unless the engine runs out of memory) and returns the partition and the
\* objective that the same call returns with an options array fresh from
\* SetDefaultOptions.
NilOptionsAsDefaults ==
    /\ (pc = "done" /\ args.op \in GraphPartOps /\ args.options.nil
           /\ ValidRequest /\ out.ret # ErrorMemory) => Succeeded
    /\ NilOptionsSameAsDefaults

ArrayOps ==
    GraphPartOps \cup MeshPartOps
        \cup {"MeshToDual", "MeshToNodal", "NodeND", "ComputeVertexSeparator"}

AccessorOps == {"NumVertices", "NumEdges", "Degree", "Neighbors"}

TextLines == ScanLines(args.text)

HeaderFields == Fields(TextLines[1])

\* fewer vertex lines follow the header than it announces
LinesMissing == Len(TextLines) < HeaderCount + 1

\* some token of the first n vertex lines is no integer
BadToken(n) ==
    \E i \in 2..(n + 1) :
        \E t \in 1..Len(Fields(TextLines[i])) : Atoi(Fields(TextLines[i])[t]).err

\* C26: ReadGraphFile returns, for every text, either a graph and no error
\* or no graph and an error, and never aborts; it returns an error for the
\* empty text, for a header of fewer than two fields, for a vertex count that
\* is no integer (any integer count, a negative one included, makes it return
\* all the same), for a text that ends before nvtxs vertex lines, and for a
\* weight or neighbour token that is no integer.
ReadGraphReturns ==
    (pc = "done" /\ args.op = "ReadGraphFile") =>
        /\ out.outcome = "returned"
        /\ out.graph.null <=> out.err # NoError
        /\ (\/ Len(TextLines) = 0
            \/ Len(HeaderFields) < 2
            \/ Atoi(HeaderFields[1]).err
            \/ LinesMissing
            \/ BadToken(HeaderCount)) => out.err # NoError

\* the header of the text of the last call flags vertex weights, edge weights
HeaderFmt == IF Len(HeaderFields) >= 3 THEN Atoi(HeaderFields[3]).val ELSE 0

FlagsVertexWeights == (HeaderFmt \div 10) % 10 = 1

FlagsEdgeWeights == HeaderFmt % 10 = 1

\* the weights of a file that was written from arrays come back as written
ReadWeightsWritten ==
    (Succeeded /\ args.op = "ReadGraphFile" /\ args.written) =>
        out.graph.Vwgt = args.vwgt /\ out.graph.Adjwgt = args.adjwgt

\* C27: the weight arrays of a Graph that ReadGraphFile returns are aligned
\* with its structure: with vertex weights flagged Vwgt has nvtxs entries,
\* with edge weights flagged Adjwgt has len(Adjncy) entries, each the weight
\* read with its vertex or neighbour, and without the flag the array is nil.
ReadWeightsAligned ==
    (Succeeded /\ args.op = "ReadGraphFile") =>
        /\ IF FlagsVertexWeights
           THEN ~out.graph.Vwgt.nil /\ len(out.graph.Vwgt) = HeaderCount
           ELSE out.graph.Vwgt.nil
        /\ IF FlagsEdgeWeights
           THEN ~out.graph.Adjwgt.nil
                   /\ len(out.graph.Adjwgt) = len(out.graph.Adjncy)
           ELSE out.graph.Adjwgt.nil
        /\ ReadWeightsWritten

\* the weight of CSR entry j of the graph of the last call
EntryWeight(j) == IF args.adjwgt.nil THEN 1 ELSE args.adjwgt.v[j]

\* the CSR entries (1-based) that hold an edge {u, v} of the graph of the
\* last call once, from its lower end u < v, and whose ends lie in different
\* parts
CutEntries ==
    {j \in 1..len(args.adjncy) :
        /\ Owner(args.xadj, j - 1) < args.adjncy.v[j]
        /\ args.part.v[Owner(args.xadj, j - 1) + 1]
              # args.part.v[args.adjncy.v[j] + 1]}

\* the sum of the weights of the entries in S
RECURSIVE WeightOf(_)
WeightOf(S) ==
    IF S = {} THEN 0
    ELSE LET j == CHOOSE x \in S : TRUE
         IN EntryWeight(j) + WeightOf(S \ {j})

\* C23: for a symmetric graph, symmetric edge weights if any, and a part
\* vector of n entries, CalculateEdgeCut is the sum over the undirected edges
\* whose ends lie in different parts of the edge's weight (1 without
\* weights), every edge counted once, as long as twice the sum is an int32.
EdgeCutCounted ==
    (/\ pc = "done" /\ args.op = "CalculateEdgeCut"
     /\ WeightOf(CutEntries) <= MaxInt32 \div 2) =>
        out.outcome = "returned" /\ out.value = WeightOf(CutEntries)

\* an edge cut of several weighted edges was worked out
EdgeCutCountedSeen ==
    /\ pc = "done" /\ args.op = "CalculateEdgeCut"
    /\ ~args.adjwgt.nil
    /\ Cardinality(CutEntries) >= 2
    /\ WeightOf(CutEntries) <= MaxInt32 \div 2
    /\ out.value = WeightOf(CutEntries)

\* the weight of vertex i (0-based) in the last call, and of part p
BalanceWeight(i) == IF args.vwgt.nil THEN 1 ELSE args.vwgt.v[i + 1]

RECURSIVE VerticesWeight(_)
VerticesWeight(S) ==
    IF S = {} THEN 0
    ELSE LET i == CHOOSE x \in S : TRUE
         IN BalanceWeight(i) + VerticesWeight(S \ {i})

WeightOfPart(p) ==
    VerticesWeight({i \in 0..(len(args.part) - 1) : args.part.v[i + 1] = p})

\* C28: for nparts >= 1 and part ids in [0, nparts),
\* CalculatePartitionBalance returns as min and max the least and the largest
\* of the nparts weight sums of the parts and as avg the total weight over
\* nparts; the sums of the parts add up to the total vertex weight, and
\* min * nparts <= total <= max * nparts.
BalanceStatistics ==
    (/\ pc = "done" /\ args.op = "CalculatePartitionBalance"
     /\ args.nparts >= 1 /\ InRange(args.part, args.nparts)) =>
        LET parts == 0..(args.nparts - 1)
            total == VerticesWeight(0..(len(args.part) - 1))
        IN /\ out.outcome = "returned"
           /\ \E p \in parts : out.min = WeightOfPart(p)
           /\ \A p \in parts : out.min <= WeightOfPart(p)
           /\ \E p \in parts : out.max = WeightOfPart(p)
           /\ \A p \in parts : WeightOfPart(p) <= out.max
           /\ out.avg = [num |-> total, den |-> args.nparts]
           /\ SumSeq([k \in 1..args.nparts |-> WeightOfPart(k - 1)]) = total
           /\ out.min * args.nparts <= total
           /\ total <= out.max * args.nparts

\* the statistics of two parts of different positive weights came back
BalanceStatisticsSeen ==
    /\ pc = "done" /\ args.op = "CalculatePartitionBalance"
    /\ out.outcome = "returned"
    /\ args.nparts = 2 /\ ~args.vwgt.nil
    /\ 0 < out.min /\ out.min < out.max

OptionOps ==
    GraphPartOps \cup MeshPartOps \cup {"NodeND", "ComputeVertexSeparator"}

\* the outcomes the operation a.op may have on the arguments a
OutcomesOf(a) ==
    CASE a.op = "PartGraphRecursive" ->
            PartGraphRecursive(a.xadj, a.adjncy, a.nparts, a.options)
      [] a.op = "PartGraphKway" ->
            PartGraphKway(a.xadj, a.adjncy, a.nparts, a.options)
      [] a.op = "PartGraphRecursiveWeighted" ->
            PartGraphRecursiveWeighted(a.xadj, a.adjncy, a.vwgt, a.adjwgt,
                a.nparts, a.tpwgts, a.ubvec, a.options)
      [] a.op = "PartGraphKwayWeighted" ->
            PartGraphKwayWeighted(a.xadj, a.adjncy, a.vwgt, a.adjwgt,
                a.nparts, a.tpwgts, a.ubvec, a.options)
      [] a.op = "PartMeshNodal" ->
            PartMeshNodal(a.ne, a.nn, a.eptr, a.eind, a.vwgt, a.vsize,
                a.nparts, a.tpwgts, a.options)
      [] a.op = "PartMeshDual" ->
            PartMeshDual(a.ne, a.nn, a.eptr, a.eind, a.vwgt, a.vsize,
                a.ncommon, a.nparts, a.tpwgts, a.options)
      [] a.op = "NodeND" -> NodeND(a.xadj, a.adjncy, a.vwgt, a.options)
      [] a.op = "ComputeVertexSeparator" ->
            ComputeVertexSeparator(a.xadj, a.adjncy, a.vwgt, a.options)

\* the calls of these operations that hand in nil options
NilGraphCalls ==
    {[NoArgs EXCEPT !.op = op, !.xadj = g.xadj, !.adjncy = g.adjncy,
                    !.nparts = nparts] :
        op \in {"PartGraphRecursive", "PartGraphKway"}, g \in GraphInputs,
        nparts \in NPartsInputs}

NilMeshCalls ==
    UNION {{[NoArgs EXCEPT !.op = "PartMeshNodal", !.ne = m.ne, !.nn = m.nn,
                           !.eptr = m.eptr, !.eind = m.eind, !.vwgt = vwgt,
                           !.nparts = nparts, !.tpwgts = tpwgts] :
                m \in MeshInputs, vwgt \in MeshVwgtInputs,
                tpwgts \in TpwgtsInputs(nparts)}
            \cup
            {[NoArgs EXCEPT !.op = "PartMeshDual", !.ne = m.ne, !.nn = m.nn,
                           !.eptr = m.eptr, !.eind = m.eind, !.vwgt = vwgt,
                           !.ncommon = ncommon, !.nparts = nparts,
                           !.tpwgts = tpwgts] :
                m \in MeshInputs, vwgt \in MeshVwgtInputs,
                ncommon \in NCommonInputs, tpwgts \in TpwgtsInputs(nparts)} :
           nparts \in MeshNPartsInputs}

NilOrderingCalls ==
    UNION {{[NoArgs EXCEPT !.op = op, !.xadj = g.xadj, !.adjncy = g.adjncy,
                           !.vwgt = vwgt] :
                op \in {"NodeND", "ComputeVertexSeparator"},
                vwgt \in VwgtInputs(len(g.xadj) - 1)} :
           g \in GraphInputs}

\* each of them with the outcomes it may have
NilOptionOutcomes ==
    {<<a, {o : o \in OutcomesOf(a)}>> :
        a \in NilGraphCalls \cup NilMeshCalls \cup NilOrderingCalls}

\* the options array of the last call is there but has not NoOptions entries
WrongLength == ~args.options.nil /\ len(args.options) # NoOptions

\* C29: the partition, mesh partition, ordering and separator operations
\* never turn down an options array of the wrong length: they treat it as
\* nil options (the engine gets no options pointer and so reads no entry of
\* the array, and the call has the outcomes it has with nil options), while
\* SetDefaultOptions returns an error for the same array.
WrongLengthAsNil ==
    /\ (pc = "done" /\ args.op \in OptionOps /\ WrongLength) =>
          /\ OptsPtr(args.options).nil
          /\ \E c \in NilOptionOutcomes :
                /\ c[1] = [args EXCEPT !.options = Nil]
                /\ out \in c[2]
    /\ (pc = "done" /\ args.op = "SetDefaultOptions" /\ WrongLength) =>
          out.outcome = "returned" /\ out.err # NoError

\* an ordering call with an options array of the wrong length has succeeded
WrongLengthAsNilSeen ==
    /\ Succeeded /\ args.op = "NodeND" /\ WrongLength
    /\ len(out.perm) >= 2

\* the last call is a mesh conversion that got as far as calling the engine
Converting ==
    args.op \in {"MeshToDual", "MeshToNodal"} /\ work.step # "none"

\* the outcomes the atomic wrapper has on the arguments of that call
ConversionOutcomes ==
    IF args.op = "MeshToDual"
    THEN MeshToDual(args.ne, args.nn, args.eptr, args.eind, args.ncommon)
    ELSE MeshToNodal(args.ne, args.nn, args.eptr, args.eind)

\* both slices hold all the result needs: they are equal to what the call
\* is to return
CopiedOut ==
    \E r \in ConversionOutcomes :
        work.xadjSlice = r.xadj /\ work.adjncySlice = r.adjncy

\* C25: in every MeshToDual and MeshToNodal call the engine's xadj and
\* adjncy buffers are read only after the engine returned OK and only
\* while they are live; neither buffer is released before both slices hold
\* every element of the result; each buffer is released exactly once by
\* the time the call returns; the returned slices are the Go slices and
\* point into no released memory; and when the engine returned an error no
\* buffer is read.
BuffersCopiedThenReleased ==
    Converting =>
        /\ work.read => work.ret = OK
        /\ ~work.wild
        /\ \A b \in {work.xadj, work.adjncy} :
              /\ b.frees <= 1
              /\ b.state = "freed" => CopiedOut
        /\ (pc = "done" /\ work.ret = OK) =>
              /\ work.xadj.frees = 1 /\ work.adjncy.frees = 1
              /\ work.returned = {"xadjSlice", "adjncySlice"}
              /\ out \in ConversionOutcomes
              /\ out.xadj = work.xadjSlice /\ out.adjncy = work.adjncySlice
        /\ (pc = "done" /\ work.ret # OK) =>
              /\ ~work.read
              /\ out.xadj.nil /\ out.adjncy.nil /\ out.err # NoError

\* a conversion has returned a graph with edges, both buffers released
BuffersCopiedThenReleasedSeen ==
    /\ Converting /\ Succeeded
    /\ len(out.adjncy) > 0
    /\ work.xadj.state = "freed" /\ work.adjncy.state = "freed"

\* the sum of f over the set S
RECURSIVE SumOf(_, _)
SumOf(f, S) ==
    IF S = {} THEN 0
    ELSE LET x == CHOOSE x \in S : TRUE IN f[x] + SumOf(f, S \ {x})

\* the engine's multilevel scheme is at work on a partitioning call
Multilevel == work.step \in {"coarsen", "uncoarsen"}

\* the vertices of level l that vertex c of level l + 1 stands for
GroupOf(l, c) == {u \in 1..work.levels[l].n : work.cmaps[l][u] = c}

\* the weight of each edge of a level, by its two ends
EdgeWeights(g) == [e \in (1..g.n) \X (1..g.n) |-> g.w[e[1]][e[2]]]

\* the edges of a level that a partition cuts, each once
CutEdges(g, part) ==
    {e \in (1..g.n) \X (1..g.n) : e[1] < e[2] /\ part[e[1]] # part[e[2]]}

\* C30: coarsening conserves weight at every level: the weight of a coarse
\* vertex is the sum of the weights of the fine vertices it stands for, and
\* the weight of the coarse edge between two coarse vertices is the sum of
\* the weights of the fine edges between their groups (parallel edges merged
\* into one); so a partition projected from a coarse level to the next finer
\* one has the same edge cut and the same part weights there.
CoarseningConserves ==
    Multilevel =>
        /\ \A l \in 1..Len(work.cmaps) :
              LET f == work.levels[l]
                  c == work.levels[l + 1]
              IN /\ \A x \in 1..c.n :
                       c.vwgt[x] = SumOf(f.vwgt, GroupOf(l, x))
                 /\ \A x, y \in 1..c.n :
                       x # y =>
                          c.w[x][y] = SumOf(EdgeWeights(f),
                                            GroupOf(l, x) \X GroupOf(l, y))
        /\ work.cpart # <<>> =>
              LET f == work.levels[work.lev]
                  c == work.levels[work.lev + 1]
              IN /\ SumOf(EdgeWeights(f), CutEdges(f, work.part))
                       = SumOf(EdgeWeights(c), CutEdges(c, work.cpart))
                 /\ \A p \in 0..(work.nparts - 1) :
                       SumOf(f.vwgt, {u \in 1..f.n : work.part[u] = p})
                         = SumOf(c.vwgt, {x \in 1..c.n : work.cpart[x] = p})

\* after two levels of coarsening a partition that cuts a merged edge, of
\* weight 2 or more, has been projected
CoarseningConservesSeen ==
    /\ Multilevel /\ Len(work.levels) >= 3 /\ work.cpart # <<>>
    /\ \E x, y \in 1..work.levels[work.lev + 1].n :
          /\ work.cpart[x] # work.cpart[y]
          /\ work.levels[work.lev + 1].w[x][y] >= 2

\* the 4-vertex cycle 0-1-2-3-0
FourCycle ==
    [xadj |-> Slice(<<0, 2, 4, 6, 8>>),
     adjncy |-> Slice(<<1, 3, 0, 2, 1, 3, 0, 2>>)]

\* the last call asked for 2 parts of the 4-vertex cycle, default options
FourCycleCall ==
    /\ pc = "done" /\ args.op = "PartGraphRecursive"
    /\ args.xadj = FourCycle.xadj /\ args.adjncy = FourCycle.adjncy
    /\ args.nparts = 2 /\ args.options = DefaultOptions

AloneOut(i) ==
    LET g == FinestLevel(len(args.xadj) - 1, args.xadj, args.adjncy, Nil, Nil)
        e == RunWith(g, args.nparts, seedOf(work.calls[i].options))
    IN PartReturn(e.status, Filled(MakeSlice(g.n), e.status, e.part),
                  e.objval)

\* C21: independent partitioning calls may run at the same time on one
\* shared graph without synchronization: whatever the interleaving, each
\* call returns what it returns when it runs alone.
ConcurrentAsAlone ==
    work.step = "concurrent" =>
        \A i \in 1..2 :
            work.calls[i].at = "returned" => work.calls[i].out = AloneOut(i)

====
